---- MODULE Spec2Model ----
(***************************************************************************)
(* Verification model of the lumous claim-verification pipeline.           *)
(*                                                                         *)
(* The module holds one state machine per request handler:                 *)
(*   SpecVerify    the verify operation, POST /api/factCheck               *)
(*   SpecBatch     the batch extraction operation, POST /api/analyze/batch *)
(*   SpecAnalyze   the coordinator, handleAnalyze of the home page         *)
(*   SpecClassify  the classifier, GET /api/reclaimify                     *)
(* Each specification leaves the variables of the other handlers at their  *)
(* idle values.  External collaborators (article extractor, LLM, search,   *)
(* embedding service) are inputs drawn from small sets.                    *)
(***************************************************************************)
EXTENDS Integers, Sequences, FiniteSets, TLC

(***************************************************************************)
(* Bounds of the model.                                                    *)
(***************************************************************************)
MaxClaims == 6
MaxUrls == 3
MaxExtra == 1
MaxSentences == 2
MaxSearchClaims == 2
MaxBoosts == 2
MaxPenalties == 2
MaxPageClaims == 2
MaxTriggers == 2
MaxShownClaims == 2
MaxAnalyses == 2
MaxSourceSentences == 4
MaxPageSentences == 2
MaxMessages == 2
MaxGroups == 2
MaxRuns == 2
MaxLabels == 3
MaxCalls == 3
MaxTicks == 6

(***************************************************************************)
(* Program constants.                                                      *)
(***************************************************************************)
BATCH_SIZE == 5
MAX_SOURCES_PER_CLAIM == 3
MAX_SENTENCES_PER_SOURCE == 3
CONCURRENCY == 10
MAX_CONTENT_CHARS == 4000
MIN_CONTENT_CHARS == 50
RATE_LIMIT_DELAY == 100

(***************************************************************************)
(* Sequence helpers.                                                       *)
(***************************************************************************)
Min(a, b) == IF a <= b THEN a ELSE b
Max(a, b) == IF a >= b THEN a ELSE b

\* Array.prototype.slice(from, to) with 0-based from and exclusive to.
Slice(s, from, to) == SubSeq(s, from + 1, Min(to, Len(s)))

RECURSIVE SumSeq(_)
SumSeq(s) == IF s = <<>> THEN 0 ELSE Head(s) + SumSeq(Tail(s))

RECURSIVE Flatten(_)
Flatten(ss) == IF ss = <<>> THEN <<>> ELSE Head(ss) \o Flatten(Tail(ss))

\* The elements of a sequence
Range(q) == {q[k] : k \in 1..Len(q)}

\* Mutant: the mean is truncated instead of rounded.
MathRound_Truncate(sum, n) == sum \div n

\* Math.round(sum / n) for n > 0: the nearest integer, halves rounded up.
MathRound(sum, n) == (2 * sum + n) \div (2 * n)

VARIABLES
  \* ---- verify operation (POST /api/factCheck)
  fcPc,             \* "idle", "chunking", "verdicts", "done"
  fcN,              \* number of claims of the request body (claims 1..fcN)
  processedClaims,  \* [claim, chunks] per claim handled so far
  fcI,              \* loop variable i of the verdict batch loop
  batchResults,     \* accumulated results
  fcResponse,       \* the HTTP response
  fcRaw,            \* history: per result, what the collaborator supplied
  fcLog,            \* history: per verdict batch, its claims and outcome
  legacyResponse    \* response of the single-call variant of the route

VARIABLES
  \* ---- batch extraction operation (POST /api/analyze/batch)
  bPc,        \* "idle", "running", "done"
  bUrls,      \* urls of the request body
  bClaims,    \* claims of the request body
  bI,         \* loop variable i of processInBatches
  bTask,      \* per item: the processUrl promise and the underlying fetch
  bResults,   \* results
  bResponse   \* the HTTP response

VARIABLES
  \* ---- classifier (GET /api/reclaimify)
  rPc,          \* "idle", "extract", "categorize", "rewrite", "disambiguate", "done"
  rReq,         \* query parameters and environment of the request
  rSentences,   \* sentences
  rCategorized, \* categorized
  rRewritten,   \* rewrittenPartials
  rDisInput,    \* disambiguationInput
  rResponse,    \* the HTTP response
  rReplies      \* history: kinds of the collaborator replies received

VARIABLES
  \* ---- coordinator (handleAnalyze of the home page)
  hPc,             \* "idle", "reclaimify", "websearch", "batch", "factCheck", "finished"
  hUrl,            \* url, the text of the url field
  isLoading,
  error,           \* NoError stands for null
  hClaims,         \* claims, the report; set = FALSE stands for null
  analysisState,
  loadingState,
  showClaimsPanel,
  claimsData,      \* claimsData.claims, the claim list of the run
  hUrlsPerClaim,   \* urlsPerClaim
  hBatchResults,   \* batchResults
  reclaimifyData,  \* the body of the classification response; ok = FALSE stands for null
  hReplies         \* history: which routes answered, and how

VARIABLES
  \* ---- search operation (POST /api/websearch)
  wPc,        \* "idle", "searching", "done"
  wRoute,     \* the variant of the route: "top3" or "first"
  wClaims,    \* number of claims of the request body (claims 1..wClaims)
  wOriginal,  \* originalUrl of the request body
  wTask,      \* per claim: the promise of the map callback
  wResponse   \* the HTTP response

VARIABLES
  sPc,              \* where handleAnalysis of the extension is
  sCategoryData,    \* trustedSources[category] || trustedSources['general']
  sDomain,          \* whether data.domain is among the trusted sources
  verifiedClaims,   \* what verifyClaim returned, claim by claim
  overall_score,    \* calculateOverallScore, in hundredths
  sVerdict          \* the verdict of handleAnalysis

VARIABLES
  csLoaded,             \* the load listener of the content script has run
  csTriggers,           \* "analyze" messages received
  csInFlight,           \* analyzeArticle messages sent and not yet answered
  csShown,              \* showResults messages received
  csDisplayed,          \* the result displayed last, if one is displayed
  trustBadge,
  highlightedElements,
  docBadges,            \* the badge elements attached to the document
  docSpans              \* the highlight spans attached to the document

VARIABLES
  gPc,          \* where the handler of each analysis is
  gLocal,       \* its local extractions, as read from the storage
  gSaved,       \* the analyses stored under analysis_<url>
  extractions,  \* the history in chrome.storage.local
  gWritten,     \* history: the analyses in the order they were added
  gEarlier      \* history: the length of the history the worker found

VARIABLES
  tPc,          \* whether getTopSentences was called, or has returned
  tSentences,   \* splitIntoSentences(text)
  tEmbed,       \* what generateEmbedding returned for each text
  tTop          \* the chunks getTopSentences returned

VARIABLES
  xPc,          \* whether extractClaims was called, or has returned
  xSentences,   \* the sentences of the page text
  xClaims       \* the claims extractClaims returned

VARIABLES
  kLoad,           \* the fetch of trusted-sources.json: pending, loaded or failed
  trustedSources,  \* the table the worker holds
  kPc,             \* where each analysis is
  kClaims,         \* the number of claims of each analysis
  kRead            \* the tables each analysis has read, in order

VARIABLES
  pPc,               \* where a run of the page is
  pRuns,             \* the number of runs that have ended
  pError,            \* the error the page shows
  pAnalysisState,    \* analysisState of the page
  pLoadingState,     \* loadingState of the page
  pShowClaimsPanel,  \* showClaimsPanel of the page
  pClaimCount,       \* the number of claims /api/claims returned
  pUrls,             \* urls of the search response, one list per claim
  pResults,          \* normalizedResults
  pGrouped           \* groupedResults

VARIABLES
  dPc,            \* which of the two domain checks have been made
  dTable,         \* the trusted-source table
  dCategory,      \* the category of the page
  dDomain,        \* the domain of the page
  dClaimTrusted,  \* isDomainTrusted of verifyClaim
  dModifier       \* domainModifier of calculateOverallScore

VARIABLES
  lClock,           \* Date.now()
  lastRequestTime,  \* lastRequestTime of the module
  lPc,              \* where each embedding call is in rateLimit
  lWake,            \* when the timer of a waiting call is due
  lReleased         \* when a call left rateLimit

fcVars == <<fcPc, fcN, processedClaims, fcI, batchResults, fcResponse, fcRaw,
            fcLog, legacyResponse>>

bVars == <<bPc, bUrls, bClaims, bI, bTask, bResults, bResponse>>

rVars == <<rPc, rReq, rSentences, rCategorized, rRewritten, rDisInput, rResponse, rReplies>>

hVars == <<hPc, hUrl, isLoading, error, hClaims, analysisState, loadingState, showClaimsPanel,
           claimsData, hUrlsPerClaim, hBatchResults, reclaimifyData, hReplies>>

wVars == <<wPc, wRoute, wClaims, wOriginal, wTask, wResponse>>

sVars == <<sPc, sCategoryData, sDomain, verifiedClaims, overall_score, sVerdict>>

csVars == <<csLoaded, csTriggers, csInFlight, csShown, csDisplayed, trustBadge,
            highlightedElements, docBadges, docSpans>>

gVars == <<gPc, gLocal, gSaved, extractions, gWritten, gEarlier>>

extVars == <<sVars, csVars, gVars>>

tVars == <<tPc, tSentences, tEmbed, tTop>>

\* The models added to the first five
xVars == <<xPc, xSentences, xClaims>>

kVars == <<kLoad, trustedSources, kPc, kClaims, kRead>>

pVars == <<pPc, pRuns, pError, pAnalysisState, pLoadingState, pShowClaimsPanel, pClaimCount,
          pUrls, pResults, pGrouped>>

dVars == <<dPc, dTable, dCategory, dDomain, dClaimTrusted, dModifier>>

lVars == <<lClock, lastRequestTime, lPc, lWake, lReleased>>

moreVars == <<tVars, xVars, kVars, pVars, dVars, lVars>>

vars == <<fcVars, bVars, rVars, hVars, wVars, extVars, moreVars>>

\* What the steps of one handler leave alone: the variables of the others.
otherThanVerify == <<bVars, rVars, hVars, wVars, extVars, moreVars>>
otherThanBatch == <<fcVars, rVars, hVars, wVars, extVars, moreVars>>
otherThanClassify == <<fcVars, bVars, hVars, wVars, extVars, moreVars>>
otherThanAnalyze == <<fcVars, bVars, rVars, wVars, extVars, moreVars>>
otherThanSearch == <<fcVars, bVars, rVars, hVars, extVars, moreVars>>
otherThanExtension == <<fcVars, bVars, rVars, hVars, wVars, moreVars>>
otherThanChunks == <<fcVars, bVars, rVars, hVars, wVars, extVars, xVars, kVars, pVars, dVars, lVars>>
otherThanExtract == <<fcVars, bVars, rVars, hVars, wVars, extVars, tVars, kVars, pVars, dVars, lVars>>
otherThanLoad == <<fcVars, bVars, rVars, hVars, wVars, extVars, tVars, xVars, pVars, dVars, lVars>>
otherThanPage == <<fcVars, bVars, rVars, hVars, wVars, extVars, tVars, xVars, kVars, dVars, lVars>>
otherThanDomain == <<fcVars, bVars, rVars, hVars, wVars, extVars, tVars, xVars, kVars, pVars, lVars>>
otherThanRate == <<fcVars, bVars, rVars, hVars, wVars, extVars, tVars, xVars, kVars, pVars, dVars>>
otherThanScore == <<otherThanExtension, csVars, gVars>>
otherThanContent == <<otherThanExtension, sVars, gVars>>
otherThanHistory == <<otherThanExtension, sVars, csVars>>

(***************************************************************************)
(* Verify operation: evidence of a claim.                                  *)
(* A source text is modelled by its first line (name) and the sentences    *)
(* splitIntoSentences finds in it; a blank text has no sentences.          *)
(***************************************************************************)
BlankSource == [name |-> "", sentences |-> <<>>]
ShortSource == [name |-> "src", sentences |-> <<"s1", "s2">>]

NoContent == [has |-> FALSE, sources |-> <<>>]
ContentSet ==
  { NoContent,
    [has |-> TRUE, sources |-> <<>>],
    [has |-> TRUE, sources |-> <<BlankSource>>],
    [has |-> TRUE, sources |-> <<ShortSource>>],
    [has |-> TRUE, sources |-> <<BlankSource, ShortSource, BlankSource, ShortSource>>] }

(***************************************************************************)
(* Chunk selection.  An embedding is a vector of integers, the empty       *)
(* vector when generateEmbedding failed.  A cosine similarity is kept as   *)
(* the exact fraction sign(dot) * dot^2 / (|a|^2 * |b|^2), which orders    *)
(* as the cosine does.                                                     *)
(***************************************************************************)
Dot(a, b) == SumSeq([i \in 1..Len(a) |-> a[i] * b[i]])

ZeroSim == [n |-> 0, d |-> 1]

cosineSimilarity(a, b) ==
  IF Len(a) = 0 \/ Len(b) = 0 \/ Len(a) # Len(b) THEN ZeroSim
  ELSE IF Dot(a, a) = 0 \/ Dot(b, b) = 0 THEN ZeroSim
  ELSE LET dab == Dot(a, b)
       IN [n |-> (IF dab < 0 THEN -1 ELSE 1) * dab * dab, d |-> Dot(a, a) * Dot(b, b)]

SimLess(x, y) == x.n * y.d < y.n * x.d

IndexOf(s, x) == CHOOSE i \in 1..Len(s) : s[i] = x /\ \A j \in 1..(i - 1) : s[j] # x

\* getTopSentences after splitIntoSentences: `embed` maps a text to the
\* vector generateEmbedding returned for it.
getTopSentences(claimText, sentences, maxSentences, embed) ==
  IF Len(sentences) <= maxSentences THEN sentences
  ELSE IF Len(embed[claimText]) = 0 THEN Slice(sentences, 0, maxSentences)
  ELSE
    LET n == Len(sentences)
        score(i) == cosineSimilarity(embed[claimText], embed[sentences[i]])
        \* position of i after the stable sort by descending score
        rank(i) == Cardinality({j \in 1..n : \/ SimLess(score(i), score(j))
                                             \/ (~SimLess(score(j), score(i)) /\ j < i)})
        top == {i \in 1..n : rank(i) < maxSentences}
        \* stable sort of the kept items by sentences.indexOf(text)
        before(j, i) == \/ IndexOf(sentences, sentences[j]) < IndexOf(sentences, sentences[i])
                        \/ /\ IndexOf(sentences, sentences[j]) = IndexOf(sentences, sentences[i])
                           /\ rank(j) < rank(i)
        at(p) == CHOOSE i \in top : Cardinality({j \in top : before(j, i)}) = p - 1
    IN [p \in 1..Cardinality(top) |-> sentences[at(p)]]

\* The texts the verify model embeds, and the replies of the embedding
\* collaborator considered for them.
EmbedTexts == {"claim", "s1", "s2"}
EmbedReplies == { [t \in EmbedTexts |-> <<>>],
                  [t \in EmbedTexts |-> IF t = "s2" THEN <<0, 1>> ELSE <<1, 0>>] }

\* Lines 158-199 of the verify route: the chunks of one claim.
ChunksOf(content, embed) ==
  IF ~content.has THEN <<>>
  ELSE
    LET sources == Slice(content.sources, 0, MAX_SOURCES_PER_CLAIM)
        sourceResults == [k \in 1..Len(sources) |->
            [source |-> IF sources[k].name = "" THEN "Source" ELSE sources[k].name,
             sentences |-> getTopSentences("claim", sources[k].sentences,
                                           MAX_SENTENCES_PER_SOURCE, embed)]]
        validSources == SelectSeq(sourceResults, LAMBDA r : Len(r.sentences) > 0)
    IN Slice(validSources, 0, MAX_SOURCES_PER_CLAIM)


(***************************************************************************)
(* Verify operation: the collaborator's reply and its normalization.       *)
(* An item of the reply array is null, or an object with a claim (0 when   *)
(* missing), a Verdict label and possibly a numeric Trust_Score.  The      *)
(* labels "<undefined>" and "<number>" stand for a missing Verdict key and *)
(* for a Verdict that is not a string.  hasScore is FALSE when Trust_Score *)
(* is missing or not of type number.                                       *)
(***************************************************************************)
verdicts == <<"Support", "Partially Support", "Unclear", "Contradict", "Refute">>
VerdictSet == {verdicts[i] : i \in 1..Len(verdicts)}

RawLabels == VerdictSet \cup {"supports", "Neutral", " Refute ", "partially_supports",
                              "Bogus", "", "<undefined>", "<number>"}
RawScores == {-5, 0, 42, 100, 150}

\* (v || '').trim().toLowerCase() on the labels of RawLabels
normalize(v) ==
  CASE v = "Support" -> "support"
    [] v = "Partially Support" -> "partially support"
    [] v = "Unclear" -> "unclear"
    [] v = "Contradict" -> "contradict"
    [] v = "Refute" -> "refute"
    [] v = " Refute " -> "refute"
    [] v = "Neutral" -> "neutral"
    [] v = "Bogus" -> "bogus"
    [] OTHER -> v

scoreFor(v) ==
  LET n == normalize(v)
  IN IF n \in {"support", "supports"} THEN 100
     ELSE IF n \in {"partially support", "partially_supports", "partially-supports"} THEN 65
     ELSE IF n \in {"unclear", "neutral"} THEN 50
     ELSE IF n \in {"contradict", "refute", "contradicts", "refutes"} THEN 0
     ELSE 50

\* Mutant: the collaborator's score is passed through unclamped.
ClampScore_Unclamped(x) == x

\* Math.max(0, Math.min(100, x))
ClampScore(x) == Max(0, Min(100, x))

NullItem == [null |-> TRUE, claim |-> 0, Verdict |-> "", hasScore |-> FALSE,
             Trust_Score |-> 0, Reference |-> "none"]
Item(c, v, hs, ts, ref) == [null |-> FALSE, claim |-> c, Verdict |-> v, hasScore |-> hs,
                            Trust_Score |-> ts, Reference |-> ref]

\* item.Verdict ?? ''
VerdictOrEmpty(item) == IF item.Verdict = "<undefined>" THEN "" ELSE item.Verdict

\* The map callback of normalizeResults throws a TypeError on a null item and
\* when scoreFor is applied to a Verdict that has no trim method.
NormalizeThrows(parsed) ==
  \E i \in 1..Len(parsed) :
     \/ parsed[i].null
     \/ ~parsed[i].hasScore /\ parsed[i].Verdict = "<number>"

\* Mutant: the collaborator's label is returned without the closed-set check.
NormalizeItem_KeepLabel(item) ==
  [claim |-> item.claim,
   Verdict |-> VerdictOrEmpty(item),
   Reference |-> IF item.Reference = "none" THEN <<>> ELSE <<"quote">>,
   Trust_Score |-> IF item.hasScore THEN ClampScore(item.Trust_Score)
                   ELSE scoreFor(VerdictOrEmpty(item))]

NormalizeItem(item) ==
  LET verdict == VerdictOrEmpty(item)
      isValidVerdict == verdict \in VerdictSet
  IN [claim |-> item.claim,     \* 0 stands for 'Unknown claim'
      Verdict |-> IF isValidVerdict THEN verdict ELSE "Unclear",
      Reference |-> CASE item.Reference = "array" -> <<"quote">>
                      [] item.Reference = "string" -> <<"quote">>
                      [] OTHER -> <<>>,
      Trust_Score |-> IF item.hasScore THEN ClampScore(item.Trust_Score)
                      ELSE scoreFor(verdict)]

normalizeResults(parsed) == [i \in 1..Len(parsed) |-> NormalizeItem(parsed[i])]

\* Mutant: the placeholder carries the neutral score instead of 0.
Placeholder_Neutral(claim) ==
  [claim |-> claim, Verdict |-> "Unclear", Reference |-> <<"Error processing claim">>,
   Trust_Score |-> 50]

\* The error placeholder of a failed batch (lines 334-341).
Placeholder(claim) ==
  [claim |-> claim, Verdict |-> "Unclear", Reference |-> <<"Error processing claim">>,
   Trust_Score |-> 0]

\* Lines 346-349.
AverageTrustScore(results) ==
  LET validScores == [i \in 1..Len(results) |-> results[i].Trust_Score]
  IN IF Len(validScores) > 0 THEN MathRound(SumSeq(validScores), Len(validScores)) ELSE 0

(***************************************************************************)
(* Replies of the verdict collaborator considered for a batch.             *)
(***************************************************************************)
ReplyItems(c) ==
  {Item(c, v, FALSE, 0, "array") : v \in RawLabels}
  \cup {Item(c, v, TRUE, ts, "array") : v \in RawLabels, ts \in RawScores}
  \cup {Item(0, "Support", TRUE, 42, "string"), Item(c, "Refute", FALSE, 0, "none"), NullItem}

\* One item per claim of the batch, all with the same verdict and score.
FullReply(batch, v, hs, ts) ==
  [k \in 1..Len(batch) |-> Item(batch[k].claim, v, hs, ts, "array")]

ReplyArrays(batch) ==
  {<<>>}
  \cup {<<it>> : it \in ReplyItems(batch[1].claim)}
  \cup {FullReply(batch, "Support", TRUE, 100), FullReply(batch, "Partially Support", FALSE, 0),
        FullReply(batch, "supports", FALSE, 0)}
  \cup {<<Item(batch[1].claim, "Support", FALSE, 0, "array"),
          Item(batch[1].claim, "Partially Support", FALSE, 0, "array")>>}

\* "throw": timeout or provider error; "empty": no text; "malformed": JSON.parse
\* throws; "jsonNull": the text parses to null; "jsonObject": to a non-array.
FailureKinds == {"throw", "empty", "malformed", "jsonObject"}
Replies(batch) ==
  {[kind |-> k, items |-> <<>>] : k \in FailureKinds \cup {"jsonNull"}}
  \cup {[kind |-> "jsonArray", items |-> a] : a \in ReplyArrays(batch)}

\* Whether the try block of the batch loop (lines 281-330) ends in its catch.
BatchFails(reply) ==
  \/ reply.kind \in FailureKinds
  \/ reply.kind = "jsonArray" /\ NormalizeThrows(reply.items)


(***************************************************************************)
(* Verify operation: the request handler POST of the batched route.        *)
(***************************************************************************)
NoResponse == [status |-> 0, results |-> <<>>, averageTrustScore |-> 0]

\* Line 203: claims without chunks are filtered out before the verdict loop.
perClaimChunks == SelectSeq(processedClaims, LAMBDA item : Len(item.chunks) > 0)

\* Lines 345-359: the success response.
FcSuccess(results) ==
  [status |-> 200, results |-> results, averageTrustScore |-> AverageTrustScore(results)]

FcIdle ==
  /\ fcPc = "idle"
  /\ fcN = 0
  /\ processedClaims = <<>>
  /\ fcI = 0
  /\ batchResults = <<>>
  /\ fcResponse = NoResponse
  /\ fcRaw = <<>>
  /\ fcLog = <<>>
  /\ legacyResponse = NoResponse

FcInit ==
  /\ fcPc = "idle"
  /\ fcN \in 0..MaxClaims
  /\ processedClaims = <<>>
  /\ fcI = 0
  /\ batchResults = <<>>
  /\ fcResponse = NoResponse
  /\ fcRaw = <<>>
  /\ fcLog = <<>>
  /\ legacyResponse = NoResponse

\* Lines 140-151: the body is read; an empty claim list is rejected.
FcReceive ==
  /\ fcPc = "idle"
  /\ IF fcN = 0
     THEN /\ fcPc' = "done"
          /\ fcResponse' = [NoResponse EXCEPT !.status = 400]
     ELSE /\ fcPc' = "chunking"
          /\ UNCHANGED fcResponse
  /\ UNCHANGED <<fcN, processedClaims, fcI, batchResults, fcRaw, fcLog, legacyResponse>>
  /\ UNCHANGED otherThanVerify

\* Lines 158-200: one iteration of the loop over the claims.  After the last
\* claim the handler goes on to the verdict loop, which is empty when no
\* claim has chunks.
ProcessClaim ==
  /\ fcPc = "chunking"
  /\ Len(processedClaims) < fcN
  /\ \E content \in ContentSet, embed \in EmbedReplies :
       processedClaims' = Append(processedClaims,
          [claim |-> Len(processedClaims) + 1, chunks |-> ChunksOf(content, embed)])
  /\ IF Len(processedClaims') < fcN
     THEN fcPc' = "chunking" /\ UNCHANGED fcResponse
     ELSE IF Len(perClaimChunks') > 0
     THEN fcPc' = "verdicts" /\ UNCHANGED fcResponse
     ELSE fcPc' = "done" /\ fcResponse' = FcSuccess(batchResults)
  /\ UNCHANGED <<fcN, fcI, batchResults, fcRaw, fcLog, legacyResponse>>
  /\ UNCHANGED otherThanVerify

\* Lines 277-343: one iteration of the verdict batch loop, followed by the
\* response (lines 345-359) after the last batch.
VerdictBatch ==
  /\ fcPc = "verdicts"
  /\ fcI < Len(perClaimChunks)
  /\ LET batch == Slice(perClaimChunks, fcI, fcI + BATCH_SIZE)
     IN \E reply \in Replies(batch) :
          LET failed == BatchFails(reply)
              pushed == IF failed
                        THEN [k \in 1..Len(batch) |-> Placeholder(batch[k].claim)]
                        ELSE normalizeResults(reply.items)
              raw == IF failed
                     THEN [k \in 1..Len(batch) |-> [src |-> "placeholder", item |-> NullItem]]
                     ELSE [k \in 1..Len(reply.items) |-> [src |-> "item", item |-> reply.items[k]]]
          IN /\ batchResults' = batchResults \o pushed
             /\ fcRaw' = fcRaw \o raw
             /\ fcLog' = Append(fcLog, [claims |-> [k \in 1..Len(batch) |-> batch[k].claim],
                                        kind |-> reply.kind,
                                        failed |-> failed,
                                        from |-> Len(batchResults),
                                        to |-> Len(batchResults) + Len(pushed)])
  /\ fcI' = fcI + BATCH_SIZE
  /\ IF fcI' < Len(perClaimChunks)
     THEN fcPc' = "verdicts" /\ UNCHANGED fcResponse
     ELSE fcPc' = "done" /\ fcResponse' = FcSuccess(batchResults')
  /\ UNCHANGED <<fcN, processedClaims, legacyResponse>>
  /\ UNCHANGED otherThanVerify

(***************************************************************************)
(* Verify operation: the single-call variant of the route.  Its chunk      *)
(* selection only feeds the prompt; the response is decided by the one     *)
(* collaborator reply.                                                     *)
(***************************************************************************)
\* scoreFor of the variant calls v.trim() on the raw Verdict.
LegacyThrows(parsed) ==
  \E i \in 1..Len(parsed) :
     \/ parsed[i].null
     \/ ~parsed[i].hasScore /\ parsed[i].Verdict \in {"<undefined>", "<number>"}

LegacyItem(item) ==
  [claim |-> item.claim,
   Verdict |-> IF item.Verdict \in VerdictSet THEN item.Verdict ELSE "Unclear",
   Reference |-> IF item.Reference = "none" THEN <<>> ELSE <<"quote">>,
   Trust_Score |-> IF item.hasScore THEN item.Trust_Score ELSE scoreFor(item.Verdict)]

LegacyResults(parsed) == [i \in 1..Len(parsed) |-> LegacyItem(parsed[i])]

LegacyPOST ==
  /\ fcPc = "idle"
  /\ fcPc' = "done"
  /\ IF fcN = 0
     THEN /\ legacyResponse' = [NoResponse EXCEPT !.status = 400]
          /\ UNCHANGED fcRaw
     ELSE \E reply \in Replies([k \in 1..fcN |-> [claim |-> k]]) :
            CASE reply.kind = "throw" ->
                   /\ legacyResponse' = [NoResponse EXCEPT !.status = 500]
                   /\ UNCHANGED fcRaw
              [] reply.kind \in {"empty", "malformed"} ->
                   /\ legacyResponse' = [NoResponse EXCEPT !.status = 502]
                   /\ UNCHANGED fcRaw
              [] reply.kind \in {"jsonNull", "jsonObject"} ->
                   /\ legacyResponse' = [NoResponse EXCEPT !.status = 500]
                   /\ UNCHANGED fcRaw
              [] OTHER ->
                   IF LegacyThrows(reply.items)
                   THEN /\ legacyResponse' = [NoResponse EXCEPT !.status = 500]
                        /\ UNCHANGED fcRaw
                   ELSE /\ legacyResponse' = FcSuccess(LegacyResults(reply.items))
                        /\ fcRaw' = [k \in 1..Len(reply.items) |->
                                       [src |-> "item", item |-> reply.items[k]]]
  /\ UNCHANGED <<fcN, processedClaims, fcI, batchResults, fcResponse, fcLog>>
  /\ UNCHANGED otherThanVerify

VerifyNext == FcReceive \/ ProcessClaim \/ VerdictBatch \/ LegacyPOST



(***************************************************************************)
(* Classifier: texts and collaborator replies.                             *)
(* A text is a sequence of symbols; the symbol " " is white space.         *)
(* Sentence k of the article is the text <<"s1">>, <<"s2">>, ...           *)
(***************************************************************************)
RECURSIVE TrimLeft(_)
TrimLeft(t) == IF t # <<>> /\ Head(t) = " " THEN TrimLeft(Tail(t)) ELSE t

RECURSIVE TrimRight(_)
TrimRight(t) ==
  IF t # <<>> /\ t[Len(t)] = " " THEN TrimRight(SubSeq(t, 1, Len(t) - 1)) ELSE t

\* String.prototype.trim
Trim(t) == TrimRight(TrimLeft(t))

SentenceText(k) == <<CASE k = 1 -> "s1" [] k = 2 -> "s2" [] k = 3 -> "s3" [] OTHER -> "s4">>

\* The sentences splitIntoSentences finds in the extracted article
SentenceLists == {[k \in 1..n |-> SentenceText(k)] : n \in 0..MaxSentences}

Categories == {"Verifiable", "Partially Verifiable", "Not Verifiable"}

CatItem(sentence, category) ==
  [null |-> FALSE, sentence |-> sentence, category |-> category, reasoning |-> "r"]
NullCatItem == [null |-> TRUE, sentence |-> <<>>, category |-> "", reasoning |-> ""]

RECURSIVE CatArrays(_)
\* One item per sentence, in order, with any of the three categories
CatArrays(sentences) ==
  IF sentences = <<>> THEN {<<>>}
  ELSE {<<CatItem(Head(sentences), c)>> \o rest :
           c \in Categories, rest \in CatArrays(Tail(sentences))}

\* Replies of the categorization call: "throw" (the call fails), "notJson",
\* "notArray" (JSON that is no array), or a JSON array: the arrays asked for
\* and some that break the requested shape.
CatReplies(sentences) ==
  {[kind |-> k, items |-> <<>>] : k \in {"throw", "notJson", "notArray"}}
  \cup {[kind |-> "array", items |-> a] : a \in CatArrays(sentences)}
  \cup {[kind |-> "array", items |-> a] :
          a \in {<<>>, <<NullCatItem>>, <<CatItem(<<"s1">>, "verifiable")>>,
                 <<CatItem(<<"other">>, "Verifiable"), CatItem(<<"s1">>, "Partially Verifiable"),
                   CatItem(<<"s1">>, "Verifiable")>>}}

\* rewrittenSentence of a rewrite item: a string, undefined or a number
RewriteValues ==
  {[kind |-> "string", text |-> t] : t \in {<<>>, <<" ">>, <<"x">>, <<" ", "x">>}}
  \cup {[kind |-> "undefined", text |-> <<>>], [kind |-> "number", text |-> <<>>]}

RewItem(original, value) == [null |-> FALSE, originalSentence |-> original,
                             rewrittenSentence |-> value]

RECURSIVE RewArrays(_)
RewArrays(partials) ==
  IF partials = <<>> THEN {<<>>}
  ELSE {<<RewItem(Head(partials).sentence, v)>> \o rest :
           v \in RewriteValues, rest \in RewArrays(Tail(partials))}

RewriteReplies(partials) ==
  {[kind |-> k, items |-> <<>>] : k \in {"throw", "notJson", "notArray"}}
  \cup {[kind |-> "array", items |-> a] : a \in RewArrays(partials)}
  \cup {[kind |-> "array", items |-> <<>>],
        [kind |-> "array", items |-> <<[null |-> TRUE, originalSentence |-> <<>>,
                                        rewrittenSentence |-> [kind |-> "undefined", text |-> <<>>]]>>]}

(***************************************************************************)
(* Classifier: categorizeSentences, rewritePartiallyVerifiable and GET.    *)
(***************************************************************************)
\* Mutant: the fallback of categorizeSentences gives up with an empty list.
CategorizeFallback_Empty(sentences, reasoning) == <<>>

\* Lines 334-338 and 343-347: the default categorization
CategorizeFallback(sentences, reasoning) ==
  [k \in 1..Len(sentences) |->
     [null |-> FALSE, sentence |-> sentences[k], category |-> "Not Verifiable",
      reasoning |-> reasoning]]

\* Lines 274-349
categorizeSentences(sentences, reply) ==
  CASE reply.kind = "throw" ->
         CategorizeFallback(sentences, "Error occurred during categorization")
    [] reply.kind \in {"notJson", "notArray"} ->
         CategorizeFallback(sentences, "Failed to categorize this sentence")
    [] OTHER -> reply.items

\* Lines 207-271
rewritePartiallyVerifiable(partials, reply) ==
  IF reply.kind = "array" THEN reply.items
  ELSE [k \in 1..Len(partials) |->
          RewItem(partials[k].sentence, [kind |-> "string", text |-> <<>>])]

\* Lines 397-399
VerifiableOnly(categorized) ==
  LET kept == SelectSeq(categorized, LAMBDA it : it.category = "Verifiable")
  IN [k \in 1..Len(kept) |-> kept[k].sentence]

\* Lines 400-402
Partials(categorized) ==
  SelectSeq(categorized, LAMBDA it : it.category = "Partially Verifiable")

\* Mutant: the filter keeps every truthy rewrite, white space included.
RewrittenVerifiable_NoTrim(rewritten) ==
  LET kept == SelectSeq(rewritten, LAMBDA p :
                  p.rewrittenSentence.kind = "string" /\ p.rewrittenSentence.text # <<>>)
  IN [k \in 1..Len(kept) |-> kept[k].rewrittenSentence.text]

\* Lines 412-414: .filter(s => !!s && s.trim().length > 0)
RewrittenVerifiable(rewritten) ==
  LET kept == SelectSeq(rewritten, LAMBDA p :
                  /\ p.rewrittenSentence.kind = "string"
                  /\ p.rewrittenSentence.text # <<>>
                  /\ Len(Trim(p.rewrittenSentence.text)) > 0)
  IN [k \in 1..Len(kept) |-> kept[k].rewrittenSentence.text]

\* A TypeError in lines 397-414: a null element, or trim on a number
CategorizedThrows(categorized) == \E k \in 1..Len(categorized) : categorized[k].null
RewrittenThrows(rewritten) ==
  \E k \in 1..Len(rewritten) :
     rewritten[k].null \/ rewritten[k].rewrittenSentence.kind = "number"

\* The coordinator's claim list (handleAnalyze, lines 121-127)
verifiableList(categorized) ==
  LET kept == SelectSeq(categorized, LAMBDA it : it.category = "Verifiable")
  IN [k \in 1..Len(kept) |-> kept[k].sentence]

NoClassifyResponse == [status |-> 0, sentences |-> <<>>, hasCategorized |-> FALSE,
                       categorizedSentences |-> <<>>, rewrittenPartials |-> <<>>,
                       disambiguated |-> "none"]
NoReplies == [categorize |-> "none", rewrite |-> "none", disambiguate |-> "none"]

\* Line 425: NextResponse.json(responseData)
ClassifyResponse(sentences, hasCat, categorized, rewritten, dis) ==
  [status |-> 200, sentences |-> sentences, hasCategorized |-> hasCat,
   categorizedSentences |-> categorized, rewrittenPartials |-> rewritten,
   disambiguated |-> dis]

ErrorResponse(status) == [NoClassifyResponse EXCEPT !.status = status]

ClassifyIdle ==
  /\ rPc = "idle"
  /\ rReq = [url |-> FALSE, categorize |-> FALSE, disambiguate |-> FALSE, key |-> FALSE]
  /\ rSentences = <<>>
  /\ rCategorized = <<>>
  /\ rRewritten = <<>>
  /\ rDisInput = <<>>
  /\ rResponse = NoClassifyResponse
  /\ rReplies = NoReplies

ClassifyInit ==
  /\ rPc = "idle"
  /\ rReq \in [url : BOOLEAN, categorize : BOOLEAN, disambiguate : BOOLEAN, key : BOOLEAN]
  /\ rSentences = <<>>
  /\ rCategorized = <<>>
  /\ rRewritten = <<>>
  /\ rDisInput = <<>>
  /\ rResponse = NoClassifyResponse
  /\ rReplies = NoReplies

\* Lines 351-365: the url parameter is checked and the extraction started
ReclaimifyGET ==
  /\ rPc = "idle"
  /\ IF ~rReq.url
     THEN rPc' = "done" /\ rResponse' = ErrorResponse(400)
     ELSE rPc' = "extract" /\ UNCHANGED rResponse
  /\ UNCHANGED <<rReq, rSentences, rCategorized, rRewritten, rDisInput, rReplies>>
  /\ UNCHANGED otherThanClassify

\* Lines 365-393 and 425: extractArticleText answers or throws
ExtractArticle ==
  /\ rPc = "extract"
  /\ \/ /\ rPc' = "done"
        /\ rResponse' = ErrorResponse(500)
        /\ UNCHANGED rSentences
     \/ \E sentences \in SentenceLists :
          /\ rSentences' = sentences
          /\ IF rReq.categorize /\ rReq.key
             THEN rPc' = "categorize" /\ UNCHANGED rResponse
             ELSE /\ rPc' = "done"
                  /\ rResponse' = ClassifyResponse(sentences, FALSE, <<>>, <<>>, "none")
  /\ UNCHANGED <<rReq, rCategorized, rRewritten, rDisInput, rReplies>>
  /\ UNCHANGED otherThanClassify

\* Lines 393-425: categorizeSentences returns; without partials the rewrite
\* is skipped, without disambiguation input the response follows at once.
CategorizeReply ==
  /\ rPc = "categorize"
  /\ \E reply \in CatReplies(rSentences) :
       LET categorized == categorizeSentences(rSentences, reply)
       IN /\ rReplies' = [rReplies EXCEPT !.categorize = reply.kind]
          /\ rCategorized' = categorized
          /\ IF CategorizedThrows(categorized)
             THEN rPc' = "done" /\ rResponse' = ErrorResponse(500) /\ UNCHANGED rDisInput
             ELSE IF ~rReq.disambiguate
             THEN /\ rPc' = "done"
                  /\ rResponse' = ClassifyResponse(rSentences, TRUE, categorized, <<>>, "none")
                  /\ UNCHANGED rDisInput
             ELSE IF Len(Partials(categorized)) > 0
             THEN rPc' = "rewrite" /\ UNCHANGED <<rResponse, rDisInput>>
             ELSE /\ rDisInput' = VerifiableOnly(categorized) \o RewrittenVerifiable(<<>>)
                  /\ IF Len(rDisInput') > 0
                     THEN rPc' = "disambiguate" /\ UNCHANGED rResponse
                     ELSE /\ rPc' = "done"
                          /\ rResponse' = ClassifyResponse(rSentences, TRUE, categorized,
                                                           <<>>, "none")
  /\ UNCHANGED <<rReq, rSentences, rRewritten>>
  /\ UNCHANGED otherThanClassify

\* Lines 408-425: rewritePartiallyVerifiable returns
RewriteReply ==
  /\ rPc = "rewrite"
  /\ \E reply \in RewriteReplies(Partials(rCategorized)) :
       LET rewritten == rewritePartiallyVerifiable(Partials(rCategorized), reply)
       IN /\ rReplies' = [rReplies EXCEPT !.rewrite = reply.kind]
          /\ rRewritten' = rewritten
          /\ IF RewrittenThrows(rewritten)
             THEN rPc' = "done" /\ rResponse' = ErrorResponse(500) /\ UNCHANGED rDisInput
             ELSE /\ rDisInput' = VerifiableOnly(rCategorized) \o RewrittenVerifiable(rewritten)
                  /\ IF Len(rDisInput') > 0
                     THEN rPc' = "disambiguate" /\ UNCHANGED rResponse
                     ELSE /\ rPc' = "done"
                          /\ rResponse' = ClassifyResponse(rSentences, TRUE, rCategorized,
                                                           rewritten, "none")
  /\ UNCHANGED <<rReq, rSentences, rCategorized>>
  /\ UNCHANGED otherThanClassify

\* Lines 418-425: disambiguateSentences returns the collaborator's JSON or,
\* when the call or its parse fails, its fallback list
DisambiguateReply ==
  /\ rPc = "disambiguate"
  /\ \E kind \in {"json", "fallback"} :
       /\ rReplies' = [rReplies EXCEPT !.disambiguate = kind]
       /\ rResponse' = ClassifyResponse(rSentences, TRUE, rCategorized, rRewritten, kind)
  /\ rPc' = "done"
  /\ UNCHANGED <<rReq, rSentences, rCategorized, rRewritten, rDisInput>>
  /\ UNCHANGED otherThanClassify

ClassifyNext ==
  ReclaimifyGET \/ ExtractArticle \/ CategorizeReply \/ RewriteReply \/ DisambiguateReply

(***************************************************************************)
(* Properties of the verify operation.                                     *)
(***************************************************************************)
IsPrefix(s, t) == Len(s) <= Len(t) /\ SubSeq(t, 1, Len(s)) = s

\* The step of a verdict batch whose collaborator call failed.
C2_FailedBatchStep ==
  (Len(fcLog') = Len(fcLog) + 1 /\ fcLog'[Len(fcLog')].kind \in {"throw", "empty", "malformed"})
  => LET b == fcLog'[Len(fcLog')]
     IN /\ batchResults' = batchResults \o
             [k \in 1..Len(b.claims) |->
                [claim |-> b.claims[k], Verdict |-> "Unclear",
                 Reference |-> <<"Error processing claim">>, Trust_Score |-> 0]]
        /\ fcPc' \in {"verdicts", "done"}
        /\ fcPc' = "verdicts" <=> b.from # b.to /\ fcI' < Len(perClaimChunks)
        /\ fcPc' = "done" => fcResponse'.status = 200 /\ fcResponse'.results = batchResults'

\* The response of the batched route, once given for a non-empty request, is a
\* success that follows every batch of the request.
C2_Completes ==
  (fcPc = "done" /\ fcN > 0 /\ legacyResponse.status = 0)
  => /\ fcResponse.status = 200
     /\ Flatten([k \in 1..Len(fcLog) |-> fcLog[k].claims])
          = [k \in 1..Len(perClaimChunks) |-> perClaimChunks[k].claim]

\* C2: when the collaborator call of one verdict batch fails (timeout, empty
\* response, malformed JSON, provider error), every claim of that batch gets the
\* synthetic result Unclear / 0 / placeholder reference, the results of the
\* other batches stay as they are, later batches are still processed and the
\* request completes with a success response.
C2_FailedBatchIsolated ==
  /\ [][C2_FailedBatchStep /\ IsPrefix(batchResults, batchResults')]_vars
  /\ []C2_Completes

C2_Witness ==
  /\ fcPc = "done" /\ fcResponse.status = 200
  /\ Len(fcLog) = 2
  /\ fcLog[1].kind = "throw"
  /\ fcLog[2].kind = "jsonArray" /\ ~fcLog[2].failed /\ fcLog[2].to > fcLog[2].from

\* C3: every result returned by the verify operation has a verdict of the
\* closed set of five labels, and a collaborator label outside the set (a
\* missing label included) is returned as Unclear.
C3_VerdictClosedSet ==
  \A resp \in {fcResponse, legacyResponse} :
    resp.status = 200 =>
      \A i \in 1..Len(resp.results) :
        /\ resp.results[i].Verdict \in
             {"Support", "Partially Support", "Unclear", "Contradict", "Refute"}
        /\ (fcRaw[i].src = "item" /\ fcRaw[i].item.Verdict \notin
             {"Support", "Partially Support", "Unclear", "Contradict", "Refute"})
           => resp.results[i].Verdict = "Unclear"

C3_Witness ==
  /\ fcResponse.status = 200
  /\ \E i \in 1..Len(fcResponse.results) :
       /\ fcRaw[i].src = "item" /\ fcRaw[i].item.Verdict = "<undefined>"
       /\ fcResponse.results[i].Verdict = "Unclear"

FallbackTable(v) ==
  CASE v = "Support" -> 100
    [] v = "Partially Support" -> 65
    [] v = "Unclear" -> 50
    [] v \in {"Contradict", "Refute"} -> 0

\* C5: for every result for which the collaborator supplied no numeric score,
\* the returned Trust_Score is the fallback-table score of the returned verdict
\* (Support 100, Partially Support 65, Unclear 50, Contradict or Refute 0).
C5_ScoreMatchesReturnedVerdict ==
  fcResponse.status = 200 =>
    \A i \in 1..Len(fcResponse.results) :
      (fcRaw[i].src = "item" /\ ~fcRaw[i].item.hasScore)
      => fcResponse.results[i].Trust_Score = FallbackTable(fcResponse.results[i].Verdict)

\* C6 as claimed: averageTrustScore equals the arithmetic mean of the returned
\* trust scores, and is 0 when there are none.
C6_AverageIsExactMean ==
  fcResponse.status = 200 =>
    LET scores == [i \in 1..Len(fcResponse.results) |-> fcResponse.results[i].Trust_Score]
    IN IF Len(scores) = 0 THEN fcResponse.averageTrustScore = 0
       ELSE fcResponse.averageTrustScore * Len(scores) = SumSeq(scores)

\* C6 as amended: averageTrustScore is the arithmetic mean of the returned trust
\* scores rounded to the nearest integer (halves up), and 0 when there are none.
C6_AverageIsRoundedMean ==
  fcResponse.status = 200 =>
    LET scores == [i \in 1..Len(fcResponse.results) |-> fcResponse.results[i].Trust_Score]
        n == Len(scores)
        avg == fcResponse.averageTrustScore
    IN IF n = 0 THEN avg = 0
       ELSE /\ 2 * n * avg <= 2 * SumSeq(scores) + n
            /\ 2 * SumSeq(scores) + n < 2 * n * (avg + 1)

C6_Witness ==
  /\ fcResponse.status = 200
  /\ Len(fcResponse.results) = 2
  /\ fcResponse.results[1].Trust_Score = 100
  /\ fcResponse.results[2].Trust_Score = 65
  /\ fcResponse.averageTrustScore = 83

\* C7: every claim submitted to the verify operation appears exactly once in
\* its results, and a claim whose evidence is empty or yields no chunks gets
\* the verdict Unclear.
C7_EveryClaimAnswered ==
  fcResponse.status = 200 =>
    \A c \in 1..fcN :
      /\ Cardinality({i \in 1..Len(fcResponse.results) : fcResponse.results[i].claim = c}) = 1
      /\ Len(processedClaims[c].chunks) = 0
         => \A i \in 1..Len(fcResponse.results) :
              fcResponse.results[i].claim = c => fcResponse.results[i].Verdict = "Unclear"


(***************************************************************************)
(* Batch extraction: URLs and the pages behind them.                       *)
(* A URL string is modelled by its scheme as written, an identity and the  *)
(* behaviour of the site behind it: "ok" and "long" give an article of 200 *)
(* and 5000 characters, "short" gives 40 characters, "down" makes the      *)
(* extractor throw an Error (whose message is not empty), "slow" does not  *)
(* answer within REQUEST_TIMEOUT.  An entry of the urls array is the       *)
(* sequence of the pieces its string has between the separators , ; \n \r. *)
(***************************************************************************)
Url(scheme, id, site) == [scheme |-> scheme, id |-> id, site |-> site]
BlankPiece == Url("", 0, "none")

UrlEntries ==
  { <<BlankPiece>>,
    <<Url("http", 1, "ok")>>,
    <<Url("https", 2, "down")>>,
    <<Url("HTTP", 3, "ok")>>,
    <<Url("ftp", 4, "ok")>>,
    <<Url("http", 5, "slow")>>,
    <<Url("http", 6, "long")>>,
    <<Url("http", 1, "ok"), Url("http", 7, "short")>> }

RECURSIVE SeqsUpTo(_, _)
SeqsUpTo(S, n) ==
  IF n = 0 THEN {<<>>}
  ELSE LET shorter == SeqsUpTo(S, n - 1)
       IN shorter \cup {Append(q, x) : q \in {r \in shorter : Len(r) = n - 1}, x \in S}

\* A request with more URLs than one batch holds: plain pages, one of which
\* (at position p) behaves as `site`.
LongUrls(n, p, site) ==
  [k \in 1..n |-> <<Url("http", 100 + k, IF k = p THEN site ELSE "ok")>>]

BatchUrlLists ==
  SeqsUpTo(UrlEntries, MaxUrls)
  \cup {LongUrls(n, p, site) : n \in (CONCURRENCY + 1)..(CONCURRENCY + MaxExtra),
                               p \in {1, CONCURRENCY + 1}, site \in {"slow", "down"}}
  \* two full batches, the first with a page that does not answer in time
  \cup {LongUrls(2 * CONCURRENCY, 1, "slow")}

\* claims of the body: absent, one per URL, or of another length.  Claim k
\* is the claim text sent for URL k.
ClaimLists(urls) ==
  { [given |-> FALSE, list |-> <<>>],
    [given |-> TRUE, list |-> [k \in 1..Len(urls) |-> k]],
    [given |-> TRUE, list |-> [k \in 1..(Len(urls) + 1) |-> k]] }

\* /^https?:\/\//i on a string that starts with the given piece
IsHttpUrl(piece) == piece.scheme \in {"http", "https", "HTTP"}

\* urlString.startsWith('http') in extractContent
StartsWithHttp(entry) == entry[1].scheme \in {"http", "https"}

RECURSIVE Dedupe(_)
\* Array.from(new Set(xs)): first occurrences, in order
Dedupe(xs) ==
  IF xs = <<>> THEN <<>>
  ELSE LET init == Dedupe(SubSeq(xs, 1, Len(xs) - 1))
           last == xs[Len(xs)]
       IN IF \E k \in 1..Len(init) : init[k] = last THEN init ELSE Append(init, last)

\* Lines 129-151: the normalized item list.  The url of an item is again a
\* sequence of pieces: one piece after the fallback normalization, the whole
\* entry when the claims are aligned.
NormalizeItems(urls, claims) ==
  LET hasAlignedClaims == claims.given /\ Len(claims.list) = Len(urls)
  IN IF hasAlignedClaims
     THEN SelectSeq([k \in 1..Len(urls) |-> [url |-> urls[k], claim |-> claims.list[k]]],
                    LAMBDA it : IsHttpUrl(it.url[1]))
     ELSE LET processedUrls == SelectSeq(Flatten(urls), LAMBDA piece : piece # BlankPiece)
              uniqueProcessedUrls == SelectSeq(Dedupe(processedUrls), IsHttpUrl)
          IN [k \in 1..Len(uniqueProcessedUrls) |->
                [url |-> <<uniqueProcessedUrls[k]>>, claim |-> 0]]

items == NormalizeItems(bUrls, bClaims)

\* The page a URL string leads to: a string of several pieces is no page.
SiteOf(url) == IF Len(url) = 1 THEN url[1].site ELSE "down"

\* Characters of article.content and of stripHtml(article.content)
RawChars(site) == CASE site = "long" -> 5000 [] site = "short" -> 40 [] OTHER -> 200

(***************************************************************************)
(* Batch extraction: results.  content is the number of characters of the  *)
(* text, error "" stands for no error, claim 0 for no claim.               *)
(***************************************************************************)
NoResult == [url |-> <<>>, content |-> 0, error |-> "", claim |-> 0]

\* extractContent, lines 73-80: no fetch is made for such a URL
InvalidFormatResult(item) ==
  [url |-> item.url, content |-> 0, error |-> "Invalid URL format", claim |-> item.claim]

\* extractContent, lines 82-115: the result when the extractor has answered
ExtractResult(item) ==
  LET site == SiteOf(item.url)
  IN IF site = "down"
     THEN [url |-> item.url, content |-> 0, error |-> "fetch failed", claim |-> item.claim]
     ELSE IF RawChars(site) > MIN_CONTENT_CHARS
     THEN [url |-> item.url, content |-> RawChars(site), error |-> "", claim |-> item.claim]
     ELSE [url |-> item.url, content |-> 0,
           error |-> "No extractable content found using article extractor",
           claim |-> item.claim]

\* Mutant: the timeout leaves a result without an error.
TimeoutResult_NoError(item) ==
  [url |-> item.url, content |-> 0, error |-> "", claim |-> item.claim]

\* processUrl, lines 179-187: the timer won the race
TimeoutResult(item) ==
  [url |-> item.url, content |-> 0, error |-> "Request timeout", claim |-> item.claim]

\* Lines 224-233: the results as returned
ValidResults(results) ==
  [k \in 1..Len(results) |->
     [results[k] EXCEPT !.content = Min(results[k].content, MAX_CONTENT_CHARS)]]

NoBatchResponse == [status |-> 0, results |-> <<>>, successfulExtractions |-> 0,
                    failedExtractions |-> 0]

\* Lines 235-256
BatchSuccess(results) ==
  LET validResults == ValidResults(results)
      ok == Cardinality({k \in 1..Len(validResults) :
                           validResults[k].content > 0 /\ validResults[k].error = ""})
  IN [status |-> 200, results |-> validResults, successfulExtractions |-> ok,
      failedExtractions |-> Len(validResults) - ok]


(***************************************************************************)
(* Batch extraction: the request handler POST, processInBatches and        *)
(* processUrl.  A task is the promise of processUrl for one item (st) and  *)
(* the extractor call behind it (fetch), which the timeout does not stop.  *)
(***************************************************************************)
NewTask == [st |-> "new", fetch |-> "none", value |-> NoResult]

InBatch(k, i) == i < k /\ k <= i + CONCURRENCY

\* Mutant: every item after i is started at once, whatever its batch.
Dispatch_All(tasks, i) ==
  [k \in DOMAIN tasks |->
     IF k <= i THEN tasks[k]
     ELSE IF StartsWithHttp(items[k].url)
     THEN [st |-> "pending", fetch |-> "running", value |-> NoResult]
     ELSE [st |-> "settled", fetch |-> "none", value |-> InvalidFormatResult(items[k])]]

\* Line 198: batch.map(item => processUrl(item)) for the batch starting at i
Dispatch(tasks, i) ==
  [k \in DOMAIN tasks |->
     IF ~InBatch(k, i) THEN tasks[k]
     ELSE IF StartsWithHttp(items[k].url)
     THEN [st |-> "pending", fetch |-> "running", value |-> NoResult]
     ELSE [st |-> "settled", fetch |-> "none", value |-> InvalidFormatResult(items[k])]]

BatchIdle ==
  /\ bPc = "idle"
  /\ bUrls = <<>>
  /\ bClaims = [given |-> FALSE, list |-> <<>>]
  /\ bI = 0
  /\ bTask = <<>>
  /\ bResults = <<>>
  /\ bResponse = NoBatchResponse

BatchInit ==
  /\ bPc = "idle"
  /\ bUrls \in BatchUrlLists
  /\ bClaims \in ClaimLists(bUrls)
  /\ bI = 0
  /\ bTask = <<>>
  /\ bResults = <<>>
  /\ bResponse = NoBatchResponse

\* Lines 118-198: validation, normalization and the dispatch of the first batch
BatchPOST ==
  /\ bPc = "idle"
  /\ IF Len(bUrls) = 0 \/ Len(items) = 0
     THEN /\ bPc' = "done"
          /\ bResponse' = [NoBatchResponse EXCEPT !.status = 400]
          /\ UNCHANGED bTask
     ELSE /\ bPc' = "running"
          /\ bTask' = Dispatch([k \in 1..Len(items) |-> NewTask], 0)
          /\ UNCHANGED bResponse
  /\ UNCHANGED <<bUrls, bClaims, bI, bResults>>
  /\ UNCHANGED otherThanBatch

\* The extractor answers or throws before the timer: extractContent returns
\* and processUrl resolves with its result.
FetchCompletes(k) ==
  /\ bPc = "running"
  /\ bTask[k].st = "pending"
  /\ SiteOf(items[k].url) # "slow"
  /\ bTask' = [bTask EXCEPT ![k] = [st |-> "settled", fetch |-> "done",
                                    value |-> ExtractResult(items[k])]]
  /\ UNCHANGED <<bPc, bUrls, bClaims, bI, bResults, bResponse>>
  /\ UNCHANGED otherThanBatch

\* The timer of processUrl fires first: the race rejects and the catch
\* returns the timeout result.  The extractor call keeps running.
TimerFires(k) ==
  /\ bPc = "running"
  /\ bTask[k].st = "pending"
  /\ SiteOf(items[k].url) = "slow"
  /\ bTask' = [bTask EXCEPT ![k] = [st |-> "settled", fetch |-> "running",
                                    value |-> TimeoutResult(items[k])]]
  /\ UNCHANGED <<bPc, bUrls, bClaims, bI, bResults, bResponse>>
  /\ UNCHANGED otherThanBatch

\* Mutant: the late answer of a timed-out extractor call is pushed as a result.
LateCompletion_Pushes(k) ==
  /\ bTask[k].st \in {"settled", "collected"}
  /\ bTask[k].fetch = "running"
  /\ bTask' = [bTask EXCEPT ![k].fetch = "done"]
  /\ bResults' = Append(bResults, ExtractResult(items[k]))
  /\ UNCHANGED <<bPc, bUrls, bClaims, bI, bResponse>>
  /\ UNCHANGED otherThanBatch

\* The extractor call of a timed-out task ends; nobody awaits it any more.
LateCompletion(k) ==
  /\ bTask[k].st \in {"settled", "collected"}
  /\ bTask[k].fetch = "running"
  /\ bTask' = [bTask EXCEPT ![k].fetch = "done"]
  /\ UNCHANGED <<bPc, bUrls, bClaims, bI, bResults, bResponse>>
  /\ UNCHANGED otherThanBatch

\* Lines 199-216: Promise.allSettled of the batch resolves, its values are
\* pushed in order, and the loop dispatches the next batch or the handler
\* responds (lines 221-256).  processUrl never rejects, so every settled
\* promise is fulfilled.
CollectBatch ==
  /\ bPc = "running"
  /\ \A k \in DOMAIN bTask : InBatch(k, bI) => bTask[k].st = "settled"
  /\ LET last == Min(bI + CONCURRENCY, Len(items))
         collected == [k \in DOMAIN bTask |->
                         IF InBatch(k, bI) THEN [bTask[k] EXCEPT !.st = "collected"]
                         ELSE bTask[k]]
     IN /\ bResults' = bResults \o [j \in 1..(last - bI) |-> bTask[bI + j].value]
        /\ bI' = bI + CONCURRENCY
        /\ IF bI' < Len(items)
           THEN /\ bTask' = Dispatch(collected, bI')
                /\ UNCHANGED <<bPc, bResponse>>
           ELSE /\ bTask' = collected
                /\ bPc' = "done"
                /\ bResponse' = BatchSuccess(bResults')
  /\ UNCHANGED <<bUrls, bClaims>>
  /\ UNCHANGED otherThanBatch

BatchNext ==
  \/ BatchPOST
  \/ \E k \in DOMAIN bTask : FetchCompletes(k)
  \/ \E k \in DOMAIN bTask : TimerFires(k)
  \/ \E k \in DOMAIN bTask : LateCompletion(k)
  \/ CollectBatch



(***************************************************************************)
(* Properties of the batch extraction operation.                           *)
(***************************************************************************)
\* One result per item of the normalized list, in order; an item whose fetch
\* failed or timed out has a non-empty error and empty content.
C1_OneResultPerItem ==
  bResponse.status = 200 =>
    /\ Len(bResponse.results) = Len(items)
    /\ \A k \in 1..Len(items) :
         /\ bResponse.results[k].url = items[k].url
         /\ (StartsWithHttp(items[k].url) /\ SiteOf(items[k].url) \in {"down", "slow"})
            => bResponse.results[k].error # "" /\ bResponse.results[k].content = 0

\* The extractor call of an already settled task ends.
C1_LateStep ==
  (\E k \in DOMAIN bTask :
      /\ bTask[k].st # "pending" /\ bTask[k].fetch = "running"
      /\ k \in DOMAIN bTask' /\ bTask'[k].fetch = "done")
  => bResults' = bResults /\ bResponse' = bResponse

\* C1: the response of the batch extraction holds exactly one result per item
\* of the normalized list whatever fetches fail or time out, a failed or
\* timed-out item has a non-empty error and empty content, and the late
\* completion of a timed-out fetch adds no result.
C1_BatchResults == []C1_OneResultPerItem /\ [][C1_LateStep]_vars

\* 3 URLs of which 1 timed out (and answered late): 3 results, 1 with an error.
C1_Witness ==
  /\ bResponse.status = 200
  /\ Len(items) = 3
  /\ Cardinality({k \in 1..3 : SiteOf(items[k].url) = "slow"}) = 1
  /\ Cardinality({k \in 1..3 : SiteOf(items[k].url) = "ok" /\ StartsWithHttp(items[k].url)}) = 2
  /\ \A k \in 1..3 : bTask[k].fetch = "done"
  /\ Len(bResponse.results) = 3
  /\ Cardinality({k \in 1..3 : bResponse.results[k].error # ""}) = 1

(***************************************************************************)
(* Coordinator: handleAnalyze of the home page.  The four routes answer    *)
(* as collaborators; their replies are drawn from what the routes return.  *)
(***************************************************************************)
NoError == ""

\* The url typed by the user: empty, white space, or an article address
UrlInputs == {<<>>, <<" ">>, <<"a">>}

LoadingSteps == 1..5
NoStep == [k \in LoadingSteps |-> FALSE]

NoVerdicts == [support |-> 0, partially |-> 0, unclear |-> 0, contradict |-> 0, refute |-> 0]

\* Lines 63-74
InitialAnalysisState ==
  [totalClaims |-> 0, analyzedCount |-> 0, verdicts |-> NoVerdicts, avgTrustScore |-> 0]

NoReport == [set |-> FALSE, claims |-> <<>>, searchResults |-> <<>>, factChecks |-> <<>>]

\* Bodies of a successful /api/reclaimify response: categorizedSentences is
\* missing, or an array with one item per sentence, or holds a null
NoReclaimifyData == [ok |-> FALSE, isArray |-> FALSE, categorizedSentences |-> <<>>,
                     rewrittenPartials |-> <<>>]

\* The rewrittenPartials of a response whose categorization is a: what the
\* rewrite returned for the partially verifiable items of a (route.ts lines
\* 406-410), a rewrite that is no string having ended the request with a 500
RewrittenPartialsOf(a) ==
  {rw \in RewArrays(Partials(a)) :
      \A k \in 1..Len(rw) : rw[k].rewrittenSentence.kind # "number"}

ReclaimifyBodies ==
  {[ok |-> TRUE, isArray |-> FALSE, categorizedSentences |-> <<>>,
    rewrittenPartials |-> <<>>]}
  \cup UNION {{[ok |-> TRUE, isArray |-> TRUE, categorizedSentences |-> a,
                rewrittenPartials |-> rw] : rw \in RewrittenPartialsOf(a)} :
                a \in UNION {CatArrays(ss) : ss \in SentenceLists}}
  \cup {[ok |-> TRUE, isArray |-> TRUE, categorizedSentences |-> <<NullCatItem>>,
         rewrittenPartials |-> <<>>]}

\* The urls found for one claim: none, or up to two, an empty string among them
UrlChoices == {<<>>, <<"u1">>, <<"", "u2">>, <<"u1", "u2">>}

\* Bodies of a successful /api/websearch response: one url list per claim,
\* or no urls array at all
WebsearchBodies(cl) ==
  {[isArray |-> FALSE, urls |-> <<>>]}
  \cup {[isArray |-> TRUE, urls |-> u] : u \in [1..Len(cl) -> UrlChoices]}

RECURSIVE FlattenUrls(_, _, _)
\* Lines 160-170: the truthy urls with the claim of their list, from list k on
FlattenUrls(lists, cl, k) ==
  IF k > Len(lists) THEN <<>>
  ELSE LET urls  == SelectSeq(lists[k], LAMBDA u : u # "")
           claim == IF k <= Len(cl) THEN cl[k] ELSE <<>>
       IN [j \in 1..Len(urls) |-> [url |-> urls[j], claim |-> claim]]
          \o FlattenUrls(lists, cl, k + 1)

\* Bodies of a successful /api/analyze/batch response: one result per url
\* with the claim of its position, with or without extracted content
BatchBodies(flattened) ==
  {[isArray |-> FALSE, results |-> <<>>]}
  \cup {[isArray |-> TRUE,
         results |-> [j \in 1..Len(flattened) |->
                        [claim |-> flattened[j].claim, url |-> flattened[j].url,
                         content |-> cs[j]]]] :
          cs \in [1..Len(flattened) -> {<<>>, <<"c">>}]}

\* Lines 199-200
ClaimKey(result) == Trim(result.claim)
ContentOf(result) == Trim(result.content)

\* Lines 196-216: the claims that have content, in order of first appearance
factCheckClaims(results) ==
  LET withContent == SelectSeq(results,
                        LAMBDA r : ClaimKey(r) # <<>> /\ ContentOf(r) # <<>>)
  IN Dedupe([j \in 1..Len(withContent) |-> ClaimKey(withContent[j])])

FcAnswers == {"Support", "Unclear", "absent"}

\* Bodies of a successful /api/factCheck response: a result for each
\* submitted claim or for some of them, with the average of their scores
FactCheckBodies(submitted) ==
  {LET all == [j \in 1..Len(submitted) |->
                 [claim |-> submitted[j], Verdict |-> ans[j],
                  Trust_Score |-> IF ans[j] = "Support" THEN 100 ELSE 0]]
       results == SelectSeq(all, LAMBDA r : r.Verdict # "absent")
   IN [results |-> results, hasAverage |-> TRUE,
       averageTrustScore |-> AverageTrustScore(results)] :
     ans \in [1..Len(submitted) -> FcAnswers]}
  \cup {[results |-> <<>>, hasAverage |-> FALSE, averageTrustScore |-> 0]}

\* Lines 261-264: the verdict found for a claim, "<undefined>" if none
VerdictFor(claimText, factCheckResults) ==
  LET found == SelectSeq(factCheckResults, LAMBDA r : Trim(r.claim) = Trim(claimText))
  IN IF found = <<>> THEN "<undefined>" ELSE found[1].Verdict

\* Lines 240-270
mergedResults(cl, results, factCheckResults) ==
  [k \in 1..Len(cl) |->
     LET group == SelectSeq(results, LAMBDA r : ClaimKey(r) = cl[k])
     IN [url     |-> IF group = <<>> THEN "" ELSE group[1].url,
         content |-> IF group = <<>> THEN <<>> ELSE group[1].content,
         verdict |-> VerdictFor(cl[k], factCheckResults)]]

\* Lines 273-281
verdictCounts(factCheckResults) ==
  LET count(v) == Len(SelectSeq(factCheckResults, LAMBDA r : r.Verdict = v))
  IN [support |-> count("Support"), partially |-> count("Partially Support"),
      unclear |-> count("Unclear"), contradict |-> count("Contradict"),
      refute |-> count("Refute")]

AnalyzeIdle ==
  /\ hPc = "idle"
  /\ hUrl = <<>>
  /\ isLoading = FALSE
  /\ error = NoError
  /\ hClaims = NoReport
  /\ analysisState = InitialAnalysisState
  /\ loadingState = NoStep
  /\ showClaimsPanel = FALSE
  /\ claimsData = <<>>
  /\ hUrlsPerClaim = <<>>
  /\ hBatchResults = <<>>
  /\ reclaimifyData = NoReclaimifyData
  /\ hReplies = [reclaimify |-> "none", websearch |-> "none", batch |-> "none",
                 factCheck |-> "none"]

\* Lines 50-84: the state of the page once the user has typed a url
AnalyzeInit ==
  /\ hPc = "idle"
  /\ hUrl \in UrlInputs
  /\ isLoading = FALSE
  /\ error = NoError
  /\ hClaims = NoReport
  /\ analysisState = InitialAnalysisState
  /\ loadingState = NoStep
  /\ showClaimsPanel = FALSE
  /\ claimsData = <<>>
  /\ hUrlsPerClaim = <<>>
  /\ hBatchResults = <<>>
  /\ reclaimifyData = NoReclaimifyData
  /\ hReplies = [reclaimify |-> "none", websearch |-> "none", batch |-> "none",
                 factCheck |-> "none"]

\* Lines 300-305: catch and finally
Throw(message) ==
  /\ error' = message
  /\ isLoading' = FALSE
  /\ hPc' = "finished"

\* Lines 239-298 and 303-305: the merge, the report and the end of the run
Report(results, factCheckResults, hasAverage, average) ==
  LET merged == mergedResults(claimsData, results, factCheckResults)
  IN /\ analysisState' = [analysisState EXCEPT
                            !.analyzedCount = Len(merged),
                            !.verdicts = verdictCounts(factCheckResults),
                            !.avgTrustScore = IF hasAverage THEN average ELSE @]
     /\ hClaims' = [set |-> TRUE, claims |-> claimsData, searchResults |-> merged,
                   factChecks |-> factCheckResults]
     /\ showClaimsPanel' = TRUE
     /\ loadingState' = [loadingState EXCEPT ![4] = FALSE, ![5] = TRUE]
     /\ isLoading' = FALSE
     /\ hPc' = "finished"

\* Lines 86-109: a blank url is refused, otherwise the run starts
HandleAnalyze ==
  /\ hPc = "idle"
  /\ IF Trim(hUrl) = <<>>
     THEN /\ error' = "Please enter a URL"
          /\ hPc' = "finished"
          /\ UNCHANGED <<isLoading, hClaims, loadingState, showClaimsPanel, reclaimifyData>>
     ELSE /\ isLoading' = TRUE
          /\ reclaimifyData' = NoReclaimifyData
          /\ error' = NoError
          /\ hClaims' = NoReport
          /\ loadingState' = [NoStep EXCEPT ![1] = TRUE]
          /\ showClaimsPanel' = FALSE
          /\ hPc' = "reclaimify"
  /\ UNCHANGED <<hUrl, analysisState, claimsData, hUrlsPerClaim, hBatchResults, hReplies>>
  /\ UNCHANGED otherThanAnalyze

\* Lines 109-150: the classification answers
ReclaimifyResponds ==
  /\ hPc = "reclaimify"
  /\ \/ /\ hReplies' = [hReplies EXCEPT !.reclaimify = "notOk"]
        /\ Throw("Failed to process URL")
        /\ UNCHANGED <<claimsData, analysisState, loadingState, reclaimifyData>>
     \/ \E body \in ReclaimifyBodies :
          LET categorized == IF body.isArray THEN body.categorizedSentences ELSE <<>>
          IN /\ hReplies' = [hReplies EXCEPT !.reclaimify = "ok"]
             /\ reclaimifyData' = body
             /\ IF CategorizedThrows(categorized)
                THEN /\ Throw("TypeError")
                     /\ UNCHANGED <<claimsData, analysisState, loadingState>>
                ELSE /\ claimsData' = verifiableList(categorized)
                     /\ analysisState' =
                          [analysisState EXCEPT !.totalClaims = Len(claimsData')]
                     /\ loadingState' = [loadingState EXCEPT ![1] = FALSE, ![2] = TRUE]
                     /\ hPc' = "websearch"
                     /\ UNCHANGED <<error, isLoading>>
  /\ UNCHANGED <<hUrl, hClaims, showClaimsPanel, hUrlsPerClaim, hBatchResults>>
  /\ UNCHANGED otherThanAnalyze

\* Lines 150-186: the search answers; the search route refuses an empty
\* claim list
WebsearchResponds ==
  /\ hPc = "websearch"
  /\ \/ /\ hReplies' = [hReplies EXCEPT !.websearch = "notOk"]
        /\ Throw("Failed to perform web search")
        /\ UNCHANGED <<hUrlsPerClaim, loadingState>>
     \/ /\ Len(claimsData) > 0
        /\ \E body \in WebsearchBodies(claimsData) :
             /\ hReplies' = [hReplies EXCEPT !.websearch = "ok"]
             /\ hUrlsPerClaim' = IF body.isArray THEN body.urls ELSE <<>>
             /\ loadingState' = [loadingState EXCEPT ![2] = FALSE, ![3] = TRUE]
             /\ IF Len(FlattenUrls(hUrlsPerClaim', claimsData, 1)) = 0
                THEN Throw("No valid URLs found for analysis")
                ELSE hPc' = "batch" /\ UNCHANGED <<error, isLoading>>
  /\ UNCHANGED <<hUrl, hClaims, analysisState, showClaimsPanel, claimsData, hBatchResults,
                 reclaimifyData>>
  /\ UNCHANGED otherThanAnalyze

\* Lines 186-228 and, when no claim has content, 239-305: the extraction
\* answers
BatchResponds ==
  /\ hPc = "batch"
  /\ \/ /\ hReplies' = [hReplies EXCEPT !.batch = "notOk"]
        /\ Throw("Failed to analyze content")
        /\ UNCHANGED <<hBatchResults, loadingState, hClaims, analysisState, showClaimsPanel>>
     \/ \E body \in BatchBodies(FlattenUrls(hUrlsPerClaim, claimsData, 1)) :
          LET results == IF body.isArray THEN body.results ELSE <<>>
          IN /\ hReplies' = [hReplies EXCEPT !.batch = "ok"]
             /\ hBatchResults' = results
             /\ IF Len(factCheckClaims(results)) > 0
                THEN /\ loadingState' = [loadingState EXCEPT ![3] = FALSE, ![4] = TRUE]
                     /\ hPc' = "factCheck"
                     /\ UNCHANGED <<error, isLoading, hClaims, analysisState, showClaimsPanel>>
                ELSE /\ Report(results, <<>>, FALSE, 0)
                     /\ UNCHANGED error
  /\ UNCHANGED <<hUrl, claimsData, hUrlsPerClaim, reclaimifyData>>
  /\ UNCHANGED otherThanAnalyze

\* Lines 228-305: the verification answers
FactCheckResponds ==
  /\ hPc = "factCheck"
  /\ \/ /\ hReplies' = [hReplies EXCEPT !.factCheck = "notOk"]
        /\ Throw("Failed to perform fact checking")
        /\ UNCHANGED <<loadingState, hClaims, analysisState, showClaimsPanel>>
     \/ \E body \in FactCheckBodies(factCheckClaims(hBatchResults)) :
          /\ hReplies' = [hReplies EXCEPT !.factCheck = "ok"]
          /\ Report(hBatchResults, body.results, body.hasAverage, body.averageTrustScore)
          /\ UNCHANGED error
  /\ UNCHANGED <<hUrl, claimsData, hUrlsPerClaim, hBatchResults, reclaimifyData>>
  /\ UNCHANGED otherThanAnalyze

AnalyzeNext ==
  HandleAnalyze \/ ReclaimifyResponds \/ WebsearchResponds \/ BatchResponds
    \/ FactCheckResponds

(***************************************************************************)
(* Properties of the coordinator.                                          *)
(***************************************************************************)
\* The search answered and found no url for any claim of the run
NoUrlForAnyClaim ==
  /\ hReplies.websearch = "ok"
  /\ Len(claimsData) >= 1
  /\ Len(hUrlsPerClaim) = Len(claimsData)
  /\ \A k \in 1..Len(hUrlsPerClaim) : hUrlsPerClaim[k] = <<>>

\* C8: when the search returns zero urls for every claim of a run with at
\* least one claim, handleAnalyze does not end the run in the error state
\* but ends it with a report containing those claims.
C8_ZeroUrlsStillReports ==
  (hPc = "finished" /\ NoUrlForAnyClaim) =>
     /\ error = NoError
     /\ hClaims.set
     /\ hClaims.claims = claimsData


\* C11: the claim list the coordinator passes to the search stage consists
\* of every sentence categorized Verifiable together with the non-empty
\* rewritten part of every Partially Verifiable sentence.
C11_ClaimListWithRewrites ==
  (hReplies.reclaimify = "ok" /\ hPc # "reclaimify" /\ error # "TypeError") =>
     LET categorized == IF reclaimifyData.isArray
                        THEN reclaimifyData.categorizedSentences ELSE <<>>
         expected == VerifiableOnly(categorized)
                        \o RewrittenVerifiable(reclaimifyData.rewrittenPartials)
     IN /\ Len(claimsData) = Len(expected)
        /\ Range(claimsData) = Range(expected)

(***************************************************************************)
(* Properties of the classifier.                                           *)
(***************************************************************************)
CategorizeFailed == rReplies.categorize \in {"throw", "notJson", "notArray"}

\* C9: when the categorization call throws or answers with something that
\* is not a JSON array, categorizeSentences returns exactly one entry per
\* input sentence, in input order, each 'Not Verifiable', and the request
\* is answered with a success response carrying that list.
C9_CategorizeFallback ==
  CategorizeFailed =>
    /\ Len(rCategorized) = Len(rSentences)
    /\ \A k \in 1..Len(rCategorized) :
         /\ ~rCategorized[k].null
         /\ rCategorized[k].sentence = rSentences[k]
         /\ rCategorized[k].category = "Not Verifiable"
    /\ rPc = "done"
    /\ rResponse.status = 200
    /\ rResponse.hasCategorized
    /\ rResponse.categorizedSentences = rCategorized

C9_Witness ==
  /\ rReplies.categorize = "notArray"
  /\ Len(rSentences) = MaxSentences
  /\ rReq.disambiguate
  /\ rResponse.status = 200

RewriteFailed == rReplies.rewrite \in {"throw", "notJson", "notArray"}

\* The rewrite of item j is a string with something other than white space
NonBlankRewrite(j) ==
  /\ rRewritten[j].rewrittenSentence.kind = "string"
  /\ Trim(rRewritten[j].rewrittenSentence.text) # <<>>

\* C10: once the rewrite has answered, the disambiguation input is the
\* Verifiable sentences followed by one entry per non-blank rewrite and
\* nothing else, so a Partially Verifiable sentence whose rewrite is empty
\* or white space adds no entry; when the rewrite call fails the input is
\* the Verifiable sentences alone; and the coordinator's claim list has one
\* entry per Verifiable sentence and none for a Partially Verifiable one.
C10_BlankRewriteContributesNothing ==
  (rReplies.rewrite # "none" /\ rResponse.status # 500) =>
    LET vo == VerifiableOnly(rCategorized)
        nonBlank == {j \in 1..Len(rRewritten) : NonBlankRewrite(j)}
        claimList == verifiableList(rResponse.categorizedSentences)
    IN /\ Len(rDisInput) = Len(vo) + Cardinality(nonBlank)
       /\ SubSeq(rDisInput, 1, Len(vo)) = vo
       /\ \A m \in (Len(vo) + 1)..Len(rDisInput) : Trim(rDisInput[m]) # <<>>
       /\ RewriteFailed =>
            /\ Len(rRewritten) = Len(Partials(rCategorized))
            /\ rDisInput = vo
       /\ rResponse.status = 200 =>
            /\ Len(claimList) =
                 Cardinality({k \in 1..Len(rCategorized) : rCategorized[k].category = "Verifiable"})
            /\ \A m \in 1..Len(claimList) :
                 \E k \in 1..Len(rCategorized) :
                    /\ rCategorized[k].category = "Verifiable"
                    /\ rCategorized[k].sentence = claimList[m]

C10_Witness ==
  /\ rPc = "done"
  /\ rResponse.status = 200
  /\ rReplies.rewrite = "array"
  /\ Len(rRewritten) = 1
  /\ rRewritten[1].rewrittenSentence = [kind |-> "string", text |-> <<" ">>]
  /\ Len(rDisInput) = 1
  /\ rResponse.disambiguated # "none"

(***************************************************************************)
(* Search operation (POST /api/websearch), in its two variants: "top3" is  *)
(* the route that collects up to three urls per claim, "first" the route   *)
(* that returns the first url found.  A url is modelled by an identity and *)
(* its hostname; the hostname "invalid" marks a string the URL constructor *)
(* rejects, NullLink a missing or empty url.  The article's hostname is    *)
(* "orig".                                                                 *)
(***************************************************************************)
Link(id, host) == [id |-> id, host |-> host]
NullLink == Link(0, "")

\* originalUrl of the request body: absent, an article url, or a string that
\* is no url
OriginalUrls == {"absent", "article", "invalid"}

\* new URL(u).hostname throws a TypeError on a string that is no url
HostnameThrows(u) == u.host = "invalid"
Hostname(u) == u.host
OriginalHostnameThrows(original) == original = "invalid"
OriginalHostname(original) == "orig"

\* Result lists of the primary provider, which is asked to exclude the
\* article's hostname (exclude_domains)
TavilyLists ==
  { <<>>,
    <<Link(1, "a")>>,
    <<NullLink>>,
    <<Link(1, "a"), Link(2, "b")>>,
    <<Link(1, "a"), Link(2, "b"), Link(3, "a")>> }

TavilyReplies ==
  {[kind |-> "throw", results |-> <<>>]}
  \cup {[kind |-> "results", results |-> r] : r \in TavilyLists}

\* organic_results of the fallback provider, which knows nothing of the
\* article: its links may lead anywhere
DdgLists ==
  { <<>>,
    <<Link(10, "orig")>>,
    <<Link(11, "d")>>,
    <<Link(10, "orig"), Link(11, "d")>>,
    <<Link(1, "a"), Link(11, "d"), Link(10, "orig")>>,
    <<Link(11, "d"), Link(12, "invalid"), Link(13, "e")>>,
    <<NullLink, Link(11, "d"), Link(13, "e"), Link(14, "d")>> }

DdgReplies ==
  {[kind |-> k, links |-> <<>>] : k \in {"throw", "notOk"}}
  \cup {[kind |-> "ok", links |-> l] : l \in DdgLists}

Truthy(links) == SelectSeq(links, LAMBDA u : u # NullLink)

Includes(urls, u) == \E j \in 1..Len(urls) : urls[j] = u

RECURSIVE FillFromDdg(_, _, _)
\* part_007 lines 75-80: append until 3 unique urls.  The result is the url
\* list and whether the loop was left by a TypeError of the URL constructor.
FillFromDdg(urls, ddgUrls, original) ==
  IF ddgUrls = <<>> \/ Len(urls) >= 3 THEN [urls |-> urls, threw |-> FALSE]
  ELSE LET u == Head(ddgUrls)
       IN IF Includes(urls, u) THEN FillFromDdg(urls, Tail(ddgUrls), original)
          ELSE IF original = "absent"
          THEN FillFromDdg(Append(urls, u), Tail(ddgUrls), original)
          ELSE IF HostnameThrows(u) \/ OriginalHostnameThrows(original)
          THEN [urls |-> urls, threw |-> TRUE]
          ELSE IF Hostname(u) # OriginalHostname(original)
          THEN FillFromDdg(Append(urls, u), Tail(ddgUrls), original)
          ELSE FillFromDdg(urls, Tail(ddgUrls), original)

\* Mutant: the fallback provider is credited whatever it found.
SourceAfterDdg_Always(urls, source) == IF source = "none" THEN "duckduckgo" ELSE source

\* part_007 line 81
SourceAfterDdg(urls, source) ==
  IF Len(urls) > 0 /\ source = "none" THEN "duckduckgo" ELSE source

\* The promise of the map callback for one claim: where it waits, what it
\* holds, and what the providers answered (history)
NewSearch == [stage |-> "new", urls |-> <<>>, source |-> "none",
              tavily |-> "none", ddg |-> "none"]

NoSearchResponse == [status |-> 0, urls |-> <<>>, sources |-> <<>>]

\* part_007 lines 95-129
SearchSuccess(tasks) ==
  [status |-> 200,
   urls |-> [k \in 1..Len(tasks) |-> tasks[k].urls],
   sources |-> [k \in 1..Len(tasks) |-> tasks[k].source]]

SearchIdle ==
  /\ wPc = "idle"
  /\ wRoute = "top3"
  /\ wClaims = 0
  /\ wOriginal = "absent"
  /\ wTask = <<>>
  /\ wResponse = NoSearchResponse

SearchInit ==
  /\ wPc = "idle"
  /\ wRoute \in {"top3", "first"}
  /\ wClaims \in 0..MaxSearchClaims
  /\ wOriginal \in OriginalUrls
  /\ wTask = <<>>
  /\ wResponse = NoSearchResponse

\* part_007 lines 20-44, route.ts lines 17-40: the body is checked and the
\* map callback of every claim runs up to its first await.  A string that
\* is no url makes new URL(originalUrl) throw before the primary provider
\* is called: "top3" then goes on to the fallback provider, "first" gives up.
SearchPOST ==
  /\ wPc = "idle"
  /\ IF wClaims = 0
     THEN /\ wPc' = "done"
          /\ wResponse' = [NoSearchResponse EXCEPT !.status = 400]
          /\ UNCHANGED wTask
     ELSE /\ wPc' = "searching"
          /\ wTask' = [k \in 1..wClaims |->
                         IF wOriginal # "invalid"
                         THEN [NewSearch EXCEPT !.stage = "tavily"]
                         ELSE IF wRoute = "top3"
                         THEN [NewSearch EXCEPT !.stage = "ddg", !.tavily = "notCalled"]
                         ELSE [NewSearch EXCEPT !.stage = "done", !.tavily = "notCalled"]]
          /\ UNCHANGED wResponse
  /\ UNCHANGED <<wRoute, wClaims, wOriginal>>
  /\ UNCHANGED otherThanSearch

\* part_007 lines 40-59: the primary provider answers or fails
TavilyAnswers(k) ==
  /\ wPc = "searching"
  /\ wRoute = "top3"
  /\ wTask[k].stage = "tavily"
  /\ \E reply \in TavilyReplies :
       LET urls == Truthy(reply.results)
           source == IF Len(urls) > 0 THEN "tavily" ELSE "none"
           kind == IF reply.kind = "throw" THEN "throw"
                   ELSE IF Len(urls) = 0 THEN "nothing" ELSE "results"
       IN wTask' = [wTask EXCEPT ![k] =
                      [stage |-> IF Len(urls) < 3 THEN "ddg" ELSE "done",
                       urls |-> urls, source |-> source,
                       tavily |-> kind, ddg |-> "none"]]
  /\ UNCHANGED <<wPc, wRoute, wClaims, wOriginal, wResponse>>
  /\ UNCHANGED otherThanSearch

\* part_007 lines 59-92: the fallback provider answers or fails
DdgAnswers(k) ==
  /\ wPc = "searching"
  /\ wRoute = "top3"
  /\ wTask[k].stage = "ddg"
  /\ \E reply \in DdgReplies :
       LET ddgUrls == Truthy(reply.links)
           filled == FillFromDdg(wTask[k].urls, ddgUrls, wOriginal)
           kind == IF reply.kind # "ok" THEN reply.kind
                   ELSE IF Len(ddgUrls) = 0 THEN "nothing" ELSE "results"
       IN wTask' = [wTask EXCEPT ![k] =
                      [@ EXCEPT !.stage = "done",
                                !.urls = filled.urls,
                                !.source = IF reply.kind = "ok" /\ ~filled.threw
                                           THEN SourceAfterDdg(filled.urls, @)
                                           ELSE @,
                                !.ddg = kind]]
  /\ UNCHANGED <<wPc, wRoute, wClaims, wOriginal, wResponse>>
  /\ UNCHANGED otherThanSearch

\* route.ts lines 34-45 and 58-61: the primary provider answers, and its
\* first result is the result; if it fails the catch returns null
FirstTavilyAnswers(k) ==
  /\ wPc = "searching"
  /\ wRoute = "first"
  /\ wTask[k].stage = "tavily"
  /\ \E reply \in TavilyReplies :
       wTask' = [wTask EXCEPT ![k] =
                   IF reply.kind = "throw"
                   THEN [@ EXCEPT !.stage = "done", !.tavily = "throw"]
                   ELSE IF Len(reply.results) > 0
                   THEN [@ EXCEPT !.stage = "done", !.tavily = "results",
                                  !.urls = Truthy(<<reply.results[1]>>),
                                  !.source = "tavily"]
                   ELSE [@ EXCEPT !.stage = "ddg", !.tavily = "nothing"]]
  /\ UNCHANGED <<wPc, wRoute, wClaims, wOriginal, wResponse>>
  /\ UNCHANGED otherThanSearch

\* route.ts lines 46-61: the fallback provider answers, and the link of its
\* first organic result is the result
FirstDdgAnswers(k) ==
  /\ wPc = "searching"
  /\ wRoute = "first"
  /\ wTask[k].stage = "ddg"
  /\ \E reply \in DdgReplies :
       wTask' = [wTask EXCEPT ![k] =
                   IF reply.kind = "throw"
                   THEN [@ EXCEPT !.stage = "done", !.ddg = "throw"]
                   ELSE IF Len(reply.links) > 0
                   THEN [@ EXCEPT !.stage = "done", !.ddg = "results",
                                  !.urls = Truthy(<<reply.links[1]>>),
                                  !.source = "duckduckgo"]
                   ELSE [@ EXCEPT !.stage = "done", !.ddg = "nothing"]]
  /\ UNCHANGED <<wPc, wRoute, wClaims, wOriginal, wResponse>>
  /\ UNCHANGED otherThanSearch

\* part_007 lines 95-129, route.ts lines 64-83: Promise.all resolves
SearchResponds ==
  /\ wPc = "searching"
  /\ \A k \in 1..wClaims : wTask[k].stage = "done"
  /\ wPc' = "done"
  /\ wResponse' = SearchSuccess(wTask)
  /\ UNCHANGED <<wRoute, wClaims, wOriginal, wTask>>
  /\ UNCHANGED otherThanSearch

SearchNext ==
  \/ SearchPOST
  \/ \E k \in DOMAIN wTask : TavilyAnswers(k)
  \/ \E k \in DOMAIN wTask : DdgAnswers(k)
  \/ \E k \in DOMAIN wTask : FirstTavilyAnswers(k)
  \/ \E k \in DOMAIN wTask : FirstDdgAnswers(k)
  \/ SearchResponds

(***************************************************************************)
(* Properties of the search operation.                                     *)
(***************************************************************************)
\* C12: no url returned by the search operation for any claim has the
\* hostname of the original article url, whichever provider supplied it.
C12_NoOriginalHostname ==
  (wResponse.status = 200 /\ wOriginal = "article") =>
     \A k \in 1..Len(wResponse.urls) :
        \A j \in 1..Len(wResponse.urls[k]) :
           ~HostnameThrows(wResponse.urls[k][j])
             => Hostname(wResponse.urls[k][j]) # OriginalHostname(wOriginal)

\* Both providers failed or returned nothing for claim k
BothProvidersFailed(k) ==
  /\ wTask[k].tavily \in {"throw", "nothing", "notCalled"}
  /\ wTask[k].ddg \in {"throw", "notOk", "nothing"}

\* The search of a claim that is done stays as it is
C13_DoneStep ==
  \A k \in DOMAIN wTask :
     wTask[k].stage = "done" => (k \in DOMAIN wTask' /\ wTask'[k] = wTask[k])

C13_Response ==
  (wRoute = "top3" /\ wPc = "done" /\ wClaims > 0) =>
     /\ wResponse.status = 200
     /\ Len(wResponse.urls) = wClaims
     /\ \A k \in 1..wClaims :
          /\ wResponse.urls[k] = wTask[k].urls
          /\ wResponse.sources[k] = wTask[k].source
          /\ BothProvidersFailed(k) =>
               wResponse.urls[k] = <<>> /\ wResponse.sources[k] = "none"

\* C13: the search operation never fails because of a provider: a claim for
\* which both providers fail or return nothing gets an empty url list with
\* source 'none', the results of the other claims are unaffected, and the
\* response is a success with one entry per submitted claim in claim order.
C13_ProviderFailureIsolated == []C13_Response /\ [][C13_DoneStep]_vars

C13_Witness ==
  /\ wRoute = "top3"
  /\ wPc = "done"
  /\ wClaims = 2
  /\ wTask[1].tavily = "throw" /\ wTask[1].ddg = "throw"
  /\ wTask[2].tavily = "results" /\ Len(wResponse.urls[2]) = 3
  /\ wResponse.urls[1] = <<>>
  /\ wResponse.sources = <<"none", "tavily">>

(***************************************************************************)
(* Properties of the three routes together.                                *)
(***************************************************************************)
CollaboratorFailures == {"throw", "empty", "malformed"}

IsPlaceholder(result) ==
  /\ result.Verdict = "Unclear"
  /\ result.Reference = <<"Error processing claim">>
  /\ result.Trust_Score = 0

\* The verify route rejects exactly the empty claim list; a failed verdict
\* batch leaves one placeholder per claim of the batch in the response
C14_Verify ==
  fcResponse.status # 0 =>
    /\ fcResponse.status = 400 <=> fcN = 0
    /\ fcN > 0 =>
         /\ fcResponse.status = 200
         /\ \A b \in 1..Len(fcLog) :
              fcLog[b].kind \in CollaboratorFailures =>
                /\ fcLog[b].to - fcLog[b].from = Len(fcLog[b].claims)
                /\ \A j \in 1..Len(fcLog[b].claims) :
                     /\ IsPlaceholder(fcResponse.results[fcLog[b].from + j])
                     /\ fcResponse.results[fcLog[b].from + j].claim = fcLog[b].claims[j]

\* The extraction route rejects exactly the requests without urls or without
\* valid urls; a failed fetch leaves an error result for its item
C14_Batch ==
  bResponse.status # 0 =>
    /\ bResponse.status = 400 <=> (Len(bUrls) = 0 \/ Len(items) = 0)
    /\ (Len(bUrls) > 0 /\ Len(items) > 0) =>
         /\ bResponse.status = 200
         /\ Len(bResponse.results) = Len(items)
         /\ \A k \in 1..Len(items) :
              (StartsWithHttp(items[k].url) /\ SiteOf(items[k].url) \in {"down", "slow"})
              => bResponse.results[k].error # "" /\ bResponse.results[k].content = 0

\* The search route rejects exactly the empty claim list; a claim whose
\* providers failed has an empty url list
C14_Search ==
  wResponse.status # 0 =>
    /\ wResponse.status = 400 <=> wClaims = 0
    /\ wClaims > 0 =>
         /\ wResponse.status = 200
         /\ Len(wResponse.urls) = wClaims
         /\ \A k \in 1..wClaims :
              wTask[k].tavily = "throw" /\ wTask[k].ddg \in {"throw", "notOk", "none"}
              => wResponse.urls[k] = <<>>

CategoryWeights == {0, 90}

\* categoryData.weight || 0.8
DefaultWeight == 80

\* trustedSources[category] || trustedSources['general'], when neither is
\* there or it has no sources (trustedSources is {} until its file is loaded)
NoCategoryData == [sources |-> FALSE, weight |-> 0]

CategoryDatas ==
  {NoCategoryData} \cup {[sources |-> TRUE, weight |-> w] : w \in CategoryWeights}

positiveIndicators ==
  << [reason |-> "has attribution", boost |-> 1000],
     [reason |-> "references research", boost |-> 1500],
     [reason |-> "peer-reviewed source", boost |-> 2000],
     [reason |-> "institutional source", boost |-> 800],
     [reason |-> "direct quote", boost |-> 1200],
     [reason |-> "contains data", boost |-> 800],
     [reason |-> "specific date", boost |-> 700],
     [reason |-> "specific percentage", boost |-> 600],
     [reason |-> "verification language", boost |-> 1000] >>

negativeIndicators ==
  << [reason |-> "sensational language", penalty |-> 2500],
     [reason |-> "exaggeration", penalty |-> 1500],
     [reason |-> "absolute claims", penalty |-> 1000],
     [reason |-> "excessive punctuation", penalty |-> 1500],
     [reason |-> "opinion/speculation", penalty |-> 2000],
     [reason |-> "unverified language", penalty |-> 1200],
     [reason |-> "anonymous sources", penalty |-> 1500] >>

\* for (const indicator of positiveIndicators) if (pattern.test) score += boost
RECURSIVE Boosts(_, _)
Boosts(indicators, matched) ==
  IF indicators = <<>> THEN 0
  ELSE (IF Head(indicators).reason \in matched THEN Head(indicators).boost ELSE 0)
       + Boosts(Tail(indicators), matched)

\* for (const indicator of negativeIndicators) if (pattern.test) score -= penalty
RECURSIVE Penalties(_, _)
Penalties(indicators, matched) ==
  IF indicators = <<>> THEN 0
  ELSE (IF Head(indicators).reason \in matched THEN Head(indicators).penalty ELSE 0)
       + Penalties(Tail(indicators), matched)

\* The reasons a claim text of extractClaims can match.  A claim is a piece
\* of the page text between [.!?]+ separators, so it holds no "!!" and no
\* "??": the excessive punctuation pattern never matches one.
PositiveReasons == {positiveIndicators[k].reason : k \in DOMAIN positiveIndicators}
NegativeReasons ==
  {negativeIndicators[k].reason : k \in DOMAIN negativeIndicators} \ {"excessive punctuation"}

UpTo(S, n) == {m \in SUBSET S : Cardinality(m) <= n}

\* confidence: Math.min(1, claimScore) of a claim that extractClaims kept
Confidences == {70, 85, 100}

\* The claims extractClaims can return, as verifyClaim reads them:
\* the patterns the text matches, whether it mentions a study, research or
\* report, whether claim.types has three entries or more, whether it has
\* 'research' or 'attributed', and the confidence.  A text that matches
\* "(study|research|report) (found|showed|revealed)" mentions research and
\* has the type 'research'; three matched types add up to a claimScore over
\* 1, so to a confidence of 1.
ExtractedClaims ==
  {c \in [positive : UpTo(PositiveReasons, MaxBoosts),
          negative : UpTo(NegativeReasons, MaxPenalties),
          research : BOOLEAN,
          manyTypes : BOOLEAN,
          qualityType : BOOLEAN,
          confidence : Confidences] :
     /\ "references research" \in c.positive => (c.research /\ c.qualityType)
     /\ c.manyTypes => c.confidence = 100}

\* The claims after the first of a page: the same, matching at most one of
\* the two heaviest patterns and neither mentioning research nor having
\* three types or one of the two named types.
FurtherClaims ==
  {[positive |-> m[1], negative |-> m[2], research |-> FALSE, manyTypes |-> FALSE,
    qualityType |-> FALSE, confidence |-> cf] :
     m \in {<<{}, {}>>, <<{"peer-reviewed source"}, {}>>, <<{}, {"sensational language"}>>},
     cf \in Confidences}

ClampUnit_Unclamped(score) == score

\* Math.max(0, Math.min(1, score)), in ten-thousandths
ClampUnit(score) == Max(0, Min(10000, score))

\* The status ladder of verifyClaim, on a score in ten-thousandths
StatusOf(score) ==
  IF score >= 7500 THEN "Highly Credible"
  ELSE IF score >= 6000 THEN "Likely True"
  ELSE IF score >= 4500 THEN "Mixed/Uncertain"
  ELSE IF score >= 3000 THEN "Questionable"
  ELSE "Likely False"

StatusLabels ==
  {"Highly Credible", "Likely True", "Mixed/Uncertain", "Questionable", "Likely False"}

\* verifyClaim(claim, category, sourceDomain); isDomainTrusted is the outcome
\* of the loop over categoryData.sources
verifyClaim(claim, categoryData, isDomainTrusted) ==
  IF ~categoryData.sources
  THEN [score |-> 50, confidence |-> claim.confidence,
        verification_status |-> "Unknown - No trusted sources for category"]
  ELSE
    LET categoryWeight ==
          IF categoryData.weight # 0 THEN categoryData.weight ELSE DefaultWeight
        base == IF isDomainTrusted THEN 75 * categoryWeight ELSE 3000
        indicated == base + Boosts(positiveIndicators, claim.positive)
                          - Penalties(negativeIndicators, claim.negative)
        crossReferenced ==
          indicated + (IF isDomainTrusted /\ claim.research THEN 1000 ELSE 0)
        typed == crossReferenced + (IF claim.manyTypes THEN 500 ELSE 0)
                                 + (IF claim.qualityType THEN 800 ELSE 0)
        score == ClampUnit(typed)
    IN [score |-> MathRound(score, 100), confidence |-> claim.confidence,
        verification_status |-> StatusOf(score)]

RECURSIVE WeightedScores(_)
WeightedScores(list) ==
  IF list = <<>> THEN 0
  ELSE Head(list).score * (IF Head(list).confidence # 0 THEN Head(list).confidence ELSE 100)
       + WeightedScores(Tail(list))

RECURSIVE Weights(_)
Weights(list) ==
  IF list = <<>> THEN 0
  ELSE (IF Head(list).confidence # 0 THEN Head(list).confidence ELSE 100)
       + Weights(Tail(list))

\* calculateVariance(scores) < 0.05, on scores in hundredths
LowVariance(scores) ==
  LET n == Len(scores)
      squares == [k \in 1..n |-> scores[k] * scores[k]]
  IN n * SumSeq(squares) - SumSeq(scores) * SumSeq(scores) < 500 * n * n

NoClaimsScore_Adjusted(list, isDomainTrusted) == IF isDomainTrusted THEN 60 ELSE 45

\* if (claims.length === 0) return 0.5
NoClaimsScore(list, isDomainTrusted) == 50

\* calculateOverallScore(claims, domain), in hundredths; isDomainTrusted is
\* the outcome of the loop over every category of trustedSources
calculateOverallScore(list, isDomainTrusted) ==
  IF Len(list) = 0 THEN NoClaimsScore(list, isDomainTrusted)
  ELSE
    LET n == Len(list)
        totalScore == WeightedScores(list)
        totalWeight == Weights(list)
        domainModifier == IF isDomainTrusted THEN 10 ELSE -5
        scores == [k \in 1..n |-> list[k].score]
        consistencyBonus == IF LowVariance(scores) THEN 5 ELSE 0
        highQualityClaims == Cardinality({k \in 1..n : list[k].score >= 70})
        qualityBonus == IF 10 * highQualityClaims >= 6 * n THEN 5 ELSE 0
        modifiers == domainModifier + consistencyBonus + qualityBonus
        \* finalScore is numerator / denominator hundredths
        denominator == IF totalWeight > 0 THEN totalWeight ELSE 1
        numerator ==
          IF totalWeight > 0 THEN totalScore + modifiers * totalWeight
          ELSE 50 + modifiers
        clamped == Max(0, Min(100 * denominator, numerator))
    IN MathRound(clamped, denominator)

\* Step 5 of handleAnalysis
VerdictOf(overall) ==
  IF overall >= 75 THEN "HIGHLY TRUSTWORTHY"
  ELSE IF overall >= 60 THEN "GENERALLY RELIABLE"
  ELSE IF overall >= 45 THEN "MIXED CREDIBILITY"
  ELSE IF overall >= 30 THEN "QUESTIONABLE"
  ELSE "LIKELY UNRELIABLE"

ScoreIdle ==
  /\ sPc = "idle"
  /\ sCategoryData = NoCategoryData
  /\ sDomain = [forCategory |-> FALSE, anywhere |-> FALSE]
  /\ verifiedClaims = <<>>
  /\ overall_score = 0
  /\ sVerdict = ""

\* A page to analyse arrives: trustedSources is as it is at that time, and
\* the page domain is or is not among the sources of the page's category,
\* and is or is not among the sources of any category.
ScoreInit ==
  /\ sPc = "received"
  /\ sCategoryData \in CategoryDatas
  /\ sDomain \in [forCategory : BOOLEAN, anywhere : BOOLEAN]
  /\ ~sCategoryData.sources => ~sDomain.forCategory
  /\ verifiedClaims = <<>>
  /\ overall_score = 0
  /\ sVerdict = ""

\* Steps 1 and 2 of handleAnalysis: categorizeContent and extractClaims,
\* which returns the page's claims by falling confidence
ExtractClaims ==
  /\ sPc = "received"
  /\ sPc' = "verifying"
  /\ UNCHANGED <<sCategoryData, sDomain, verifiedClaims, overall_score, sVerdict>>
  /\ UNCHANGED otherThanScore

\* Step 3: claims.map(claim => verifyClaim(claim, category, data.domain)),
\* one claim after the other, while the list has another claim
VerifyClaim ==
  /\ sPc = "verifying"
  /\ Len(verifiedClaims) < MaxPageClaims
  /\ \E claim \in (IF verifiedClaims = <<>> THEN ExtractedClaims ELSE FurtherClaims) :
       /\ verifiedClaims # <<>> =>
            claim.confidence <= verifiedClaims[Len(verifiedClaims)].confidence
       /\ verifiedClaims' =
            Append(verifiedClaims, verifyClaim(claim, sCategoryData, sDomain.forCategory))
  /\ UNCHANGED <<sPc, sCategoryData, sDomain, overall_score, sVerdict>>
  /\ UNCHANGED otherThanScore

\* Steps 4 and 5, once every claim of the list is verified: the overall
\* score and the verdict
CalculateOverall ==
  /\ sPc = "verifying"
  /\ overall_score' = calculateOverallScore(verifiedClaims, sDomain.anywhere)
  /\ sVerdict' = VerdictOf(overall_score')
  /\ sPc' = "scored"
  /\ UNCHANGED <<sCategoryData, sDomain, verifiedClaims>>
  /\ UNCHANGED otherThanScore


ScoreNext == ExtractClaims \/ VerifyClaim \/ CalculateOverall

(***************************************************************************)
(* Properties of the extension's scoring.                                  *)
(***************************************************************************)

\* C15: every per-claim score that verifyClaim returns and the overall score
\* that calculateOverallScore returns are between 0 and 1 (0 and 100
\* hundredths), whatever boosts, penalties and bonuses apply.
C15_ScoresInUnitRange ==
  /\ \A k \in 1..Len(verifiedClaims) : verifiedClaims[k].score \in 0..100
  /\ sPc = "scored" => overall_score \in 0..100

\* A page of a trusted domain whose claim, and whose overall score, went
\* over 1 and were clamped to it.
C15_Witness ==
  /\ sPc = "scored"
  /\ overall_score = 100
  /\ \E k \in 1..Len(verifiedClaims) : verifiedClaims[k].score = 100

\* C16: a page from which zero claims were extracted has the overall score
\* 0.5 exactly, whether or not its domain is trusted.
C16_NoClaimsIsNeutral ==
  (sPc = "scored" /\ verifiedClaims = <<>>) => overall_score = 50

C16_Witness ==
  sPc = "scored" /\ verifiedClaims = <<>> /\ sDomain.anywhere /\ sCategoryData.sources

\* C17: the verification_status of every claim that verifyClaim returns is
\* one of the five status labels, and it is the label that the thresholds
\* 0.75, 0.60, 0.45 and 0.30 give to the returned score.
C17_StatusMatchesReturnedScore ==
  \A k \in 1..Len(verifiedClaims) :
    /\ verifiedClaims[k].verification_status \in StatusLabels
    /\ verifiedClaims[k].verification_status = StatusOf(100 * verifiedClaims[k].score)

(***************************************************************************)
(* The extension's content script (src/unnamed/part_001): the trust badge  *)
(* and the highlight spans it keeps in the page.                           *)
(*                                                                         *)
(* An element is named by the display that created it: the badge of the    *)
(* n-th displayResults is n, a span is the display and the claim text it   *)
(* wraps.  Each claim text stands in a text node of its own.               *)
(***************************************************************************)

\* let trustBadge = null
NoBadge == 0

ClaimTexts == 1..MaxShownClaims

\* claim.score of a shown claim, in hundredths: below 0.3, below 0.6, above
ShownScores == {20, 50, 80}

\* data.claims of a showResults message: claims of different sentences,
\* or none
ShownClaimLists ==
  {list \in UNION {[1..n -> [text : ClaimTexts, score : ShownScores]] : n \in 0..MaxShownClaims} :
     \A j, k \in DOMAIN list : j < k => list[j].text < list[k].text}

NothingDisplayed == [shown |-> 0, claims |-> <<>>]

LowTrust(c) == c.score < 60

\* highlightTextInPage for every claim with claim.score < 0.6
NewHighlights(list, n) ==
  LET low == SelectSeq(list, LowTrust)
  IN [k \in 1..Len(low) |-> [of |-> n, text |-> low[k].text]]

\* removeBadge(): the badges left in the document
BadgesAfterRemove == IF trustBadge # NoBadge THEN docBadges \ {trustBadge} ELSE docBadges

\* clearHighlights(): the spans left in the document
SpansAfterClear == docSpans \ Range(highlightedElements)

ContentIdle ==
  /\ csLoaded = FALSE
  /\ csTriggers = 0
  /\ csInFlight = 0
  /\ csShown = 0
  /\ csDisplayed = NothingDisplayed
  /\ trustBadge = NoBadge
  /\ highlightedElements = <<>>
  /\ docBadges = {}
  /\ docSpans = {}

\* The content script is loaded in a page
ContentInit == ContentIdle

\* The load listener: autoAnalyzePage two seconds after the page loaded;
\* it sends analyzeArticle unless the page is too short
PageLoaded ==
  /\ ~csLoaded
  /\ csLoaded' = TRUE
  /\ \E long \in BOOLEAN : csInFlight' = IF long THEN csInFlight + 1 ELSE csInFlight
  /\ UNCHANGED <<csTriggers, csShown, csDisplayed, trustBadge, highlightedElements,
                 docBadges, docSpans>>
  /\ UNCHANGED otherThanContent

\* The "analyze" message: analyzeCurrentPage
AnalyzeCurrentPage ==
  /\ csTriggers < MaxTriggers
  /\ csTriggers' = csTriggers + 1
  /\ docBadges' = BadgesAfterRemove
  /\ trustBadge' = NoBadge
  /\ docSpans' = SpansAfterClear
  /\ highlightedElements' = <<>>
  /\ csDisplayed' = NothingDisplayed
  /\ \E long \in BOOLEAN : csInFlight' = IF long THEN csInFlight + 1 ELSE csInFlight
  /\ UNCHANGED <<csLoaded, csShown>>
  /\ UNCHANGED otherThanContent

\* The "showResults" message of the background worker, for one of the
\* analyses asked for: displayResults(request.data)
DisplayResults ==
  /\ csInFlight > 0
  /\ csInFlight' = csInFlight - 1
  /\ csShown' = csShown + 1
  /\ \E list \in ShownClaimLists :
       /\ csDisplayed' = [shown |-> csShown', claims |-> list]
       \* showTrustBadge
       /\ docBadges' = BadgesAfterRemove \cup {csShown'}
       /\ trustBadge' = csShown'
       \* if (claims && claims.length > 0) highlightSuspiciousClaims(claims)
       /\ IF Len(list) > 0
          THEN /\ highlightedElements' = NewHighlights(list, csShown')
               /\ docSpans' = SpansAfterClear \cup Range(NewHighlights(list, csShown'))
          ELSE UNCHANGED <<highlightedElements, docSpans>>
  /\ UNCHANGED <<csLoaded, csTriggers>>
  /\ UNCHANGED otherThanContent

ContentNext == PageLoaded \/ AnalyzeCurrentPage \/ DisplayResults

(***************************************************************************)
(* Properties of the content script.                                       *)
(***************************************************************************)

C18_AtMostOneBadge == Cardinality(docBadges) <= 1

\* C18: after any analyze triggers and showResults messages the document has
\* at most one trust badge, and its highlight spans are exactly the spans
\* inserted for the claims with a score below 0.6 of the result displayed
\* last.
C18_OnlyLatestResultShown ==
  /\ C18_AtMostOneBadge
  /\ docSpans = Range(NewHighlights(csDisplayed.claims, csDisplayed.shown))


(***************************************************************************)
(* The background worker's storage: handleAnalysis saves its results and   *)
(* adds them to the history (src/unnamed/part_000, lines 295-336).  The    *)
(* listener starts a handler for every analyzeArticle message and does not *)
(* wait for it, so the handlers of several pages take turns at each await. *)
(* An analysis is named by a number, an entry of the history by the        *)
(* analysis it holds; the entries stored before are below zero.            *)
(***************************************************************************)

\* if (extractions.length > 50) extractions.splice(50)
HistoryCap == 50

Analyses == 1..MaxAnalyses

\* The history an earlier run of the worker left, most recent first
EarlierHistory(n) == [k \in 1..n |-> 0 - k]

\* extractions.unshift(results); if (extractions.length > 50) extractions.splice(50)
Unshift(list, results) ==
  SubSeq(<<results>> \o list, 1, Min(Len(list) + 1, HistoryCap))

HistoryIdle ==
  /\ gPc = [a \in Analyses |-> "idle"]
  /\ gLocal = [a \in Analyses |-> <<>>]
  /\ gSaved = {}
  /\ extractions = <<>>
  /\ gWritten = <<>>
  /\ gEarlier = 0

\* The worker starts with the history that is in chrome.storage.local
HistoryInit ==
  /\ gPc = [a \in Analyses |-> "idle"]
  /\ gLocal = [a \in Analyses |-> <<>>]
  /\ gSaved = {}
  /\ gEarlier \in {0, HistoryCap - 1, HistoryCap}
  /\ extractions = EarlierHistory(gEarlier)
  /\ gWritten = <<>>

\* The listener calls handleAnalysis, which runs up to await Promise.all
StartAnalysis(a) ==
  /\ gPc[a] = "idle"
  /\ \A b \in Analyses : b < a => gPc[b] # "idle"
  /\ gPc' = [gPc EXCEPT ![a] = "verifying"]
  /\ UNCHANGED <<gLocal, gSaved, extractions, gWritten, gEarlier>>
  /\ UNCHANGED otherThanHistory

\* Steps 4 to 6 and chrome.storage.local.set({[`analysis_${data.url}`]: results})
SaveResults(a) ==
  /\ gPc[a] = "verifying"
  /\ gSaved' = gSaved \cup {a}
  /\ gPc' = [gPc EXCEPT ![a] = "saving"]
  /\ UNCHANGED <<gLocal, extractions, gWritten, gEarlier>>
  /\ UNCHANGED otherThanHistory

\* chrome.storage.local.get(['extractions']) answers with the stored list
ReadHistory(a) ==
  /\ gPc[a] = "saving"
  /\ gLocal' = [gLocal EXCEPT ![a] = extractions]
  /\ gPc' = [gPc EXCEPT ![a] = "reading"]
  /\ UNCHANGED <<gSaved, extractions, gWritten, gEarlier>>
  /\ UNCHANGED otherThanHistory

\* unshift, splice and chrome.storage.local.set({ extractions })
WriteHistory(a) ==
  /\ gPc[a] = "reading"
  /\ gLocal' = [gLocal EXCEPT ![a] = Unshift(gLocal[a], a)]
  /\ extractions' = gLocal'[a]
  /\ gWritten' = <<a>> \o gWritten
  /\ gPc' = [gPc EXCEPT ![a] = "writing"]
  /\ UNCHANGED <<gSaved, gEarlier>>
  /\ UNCHANGED otherThanHistory

\* chrome.tabs.sendMessage(tab.id, showResults) and the end of the handler
SendResults(a) ==
  /\ gPc[a] = "writing"
  /\ gPc' = [gPc EXCEPT ![a] = "done"]
  /\ UNCHANGED <<gLocal, gSaved, extractions, gWritten, gEarlier>>
  /\ UNCHANGED otherThanHistory

HistoryNext ==
  \E a \in Analyses :
    \/ StartAnalysis(a)
    \/ SaveResults(a)
    \/ ReadHistory(a)
    \/ WriteHistory(a)
    \/ SendResults(a)

(***************************************************************************)
(* Properties of the history.                                              *)
(***************************************************************************)

\* The analyses added to the history so far, most recent first, followed by
\* the entries that were there before
EveryEntry == gWritten \o EarlierHistory(gEarlier)

\* C19: whatever way the handlers of the analyses take turns, the stored
\* history is the list of the most recent analyses, most recent first, cut
\* at 50 entries: no analysis among the 50 most recent is missing from it.
C19_HistoryKeepsMostRecent ==
  extractions = SubSeq(EveryEntry, 1, Min(Len(EveryEntry), HistoryCap))


(***************************************************************************)
(* The order of the batches of processInBatches.                           *)
(***************************************************************************)

\* The batch of item k: work.slice(i, i + batchSize) for i = 0, 10, 20, ...
BatchOf(k) == (k - 1) \div CONCURRENCY

\* processUrl was called for the item
Started(task) == task.st # "new"

\* The promise of processUrl has its result: content, an error or the
\* timeout result
Settled(task) == task.st \in {"settled", "collected"}

\* C20: no fetch task of a batch is started before every fetch task of the
\* batches before it has settled, with content, an error or the timeout
\* result.
C20_NextBatchWaits ==
  \A j, k \in DOMAIN bTask :
    (BatchOf(j) < BatchOf(k) /\ Started(bTask[k])) => Settled(bTask[j])

\* The second batch is running after a first batch that had a timeout, whose
\* extractor call is still running, next to a task that brought content.
C20_Witness ==
  /\ Len(bTask) > CONCURRENCY
  /\ bTask[CONCURRENCY + 1].st = "pending"
  /\ bTask[1].value.error = "Request timeout"
  /\ bTask[1].fetch = "running"
  /\ bTask[2].value.content > 0

(***************************************************************************)
(* The number of extractor calls under way.                                *)
(***************************************************************************)

\* The extractor call of the item was made and has not returned
Running(task) == task.fetch = "running"

\* C21: at every moment of a batch extraction request at most 10 URL
\* extraction operations are running, an operation running from its dispatch
\* until the fetch behind it completes.
C21_AtMostTenRunning ==
  Cardinality({k \in DOMAIN bTask : Running(bTask[k])}) <= CONCURRENCY

(***************************************************************************)
(* The shape of the categorized sentence list.                             *)
(***************************************************************************)

\* C22: whatever the categorization call returns, the categorized sentence
\* list has exactly one entry per input sentence, and the category of every
\* entry is Verifiable, Partially Verifiable or Not Verifiable.
C22_OneEntryPerSentence ==
  rReplies.categorize # "none" =>
    /\ Len(rCategorized) = Len(rSentences)
    /\ \A k \in 1..Len(rCategorized) :
         /\ ~rCategorized[k].null
         /\ rCategorized[k].category \in Categories

(***************************************************************************)
(* Chunk selection on its own: getTopSentences of the verify route         *)
(* (src/unnamed/part_005, lines 86-120) applied to the sentences of one    *)
(* source and to what generateEmbedding returned for each text.  The       *)
(* sentence texts are numbered, 0 is the text of the claim.                *)
(***************************************************************************)
SourceTexts == 1..MaxSourceSentences

\* What generateEmbedding returns for a text: [] when it failed
Vectors == {<<>>, <<1, 0>>, <<0, 1>>}

\* The sentences of a source, some of them possibly said twice; the texts
\* are numbered in the order they first occur
SourceSentences ==
  {list \in UNION {[1..n -> SourceTexts] : n \in 0..MaxSourceSentences} :
     \A k \in DOMAIN list : \A t \in 1..(list[k] - 1) : \E j \in 1..(k - 1) : list[j] = t}

Embeddings ==
  {[t \in SourceTexts \cup {0} |-> IF t = 0 THEN c ELSE e[t]] :
     c \in {<<>>, <<1, 0>>}, e \in [SourceTexts -> Vectors]}

RECURSIVE IsSubsequence(_, _)
\* s is t with some of its elements left out
IsSubsequence(s, t) ==
  IF s = <<>> THEN TRUE
  ELSE IF t = <<>> THEN FALSE
  ELSE IF Head(s) = Head(t) THEN IsSubsequence(Tail(s), Tail(t))
  ELSE IsSubsequence(s, Tail(t))

ChunksIdle ==
  /\ tPc = "idle"
  /\ tSentences = <<>>
  /\ tEmbed = [t \in SourceTexts \cup {0} |-> <<>>]
  /\ tTop = <<>>

ChunksInit ==
  /\ tPc = "called"
  /\ tSentences \in SourceSentences
  /\ tEmbed \in Embeddings
  /\ tTop = <<>>

\* getTopSentences(claim, text, MAX_SENTENCES_PER_SOURCE) returns
GetTopSentences ==
  /\ tPc = "called"
  /\ tTop' = getTopSentences(0, tSentences, MAX_SENTENCES_PER_SOURCE, tEmbed)
  /\ tPc' = "returned"
  /\ UNCHANGED <<tSentences, tEmbed>>
  /\ UNCHANGED otherThanChunks

ChunksNext == GetTopSentences

(***************************************************************************)
(* Properties of chunk selection.                                          *)
(***************************************************************************)

\* generateEmbedding failed for the claim or for a sentence of the source
EmbeddingFailed ==
  \/ tEmbed[0] = <<>>
  \/ \E k \in 1..Len(tSentences) : tEmbed[tSentences[k]] = <<>>

\* C23: for a source of more than K = 3 sentences, if the embedding of the
\* claim or of any sentence of the source failed, the chunks are the first K
\* sentences of the source.
C23_FallbackToFirstSentences ==
  (tPc = "returned" /\ Len(tSentences) > MAX_SENTENCES_PER_SOURCE /\ EmbeddingFailed) =>
    tTop = Slice(tSentences, 0, MAX_SENTENCES_PER_SOURCE)

\* C24: getTopSentences returns at most K = 3 chunks, in the order they have
\* in the source: the chunks are a subsequence of the source's sentences.
C24_ChunksInSourceOrder ==
  tPc = "returned" =>
    /\ Len(tTop) <= MAX_SENTENCES_PER_SOURCE
    /\ IsSubsequence(tTop, tSentences)

(***************************************************************************)
(* The extension's extractClaims (src/unnamed/part_000, lines 457-542).    *)
(* A sentence of the page is its number of characters, the types of the    *)
(* factual indicators it matches and the number of opinion patterns it     *)
(* matches; its text is its place in the page.  Scores are in hundredths.  *)
(***************************************************************************)
factualIndicators ==
  << [type |-> "percentage", score |-> 80],
     [type |-> "financial", score |-> 90],
     [type |-> "statistical", score |-> 90],
     [type |-> "year", score |-> 70],
     [type |-> "date", score |-> 80],
     [type |-> "attributed", score |-> 90],
     [type |-> "research", score |-> 95],
     [type |-> "quote", score |-> 85],
     [type |-> "change", score |-> 70],
     [type |-> "action", score |-> 80],
     [type |-> "comparison", score |-> 75],
     [type |-> "causal", score |-> 80] >>

\* const topClaims = claims.slice(0, 10)
TopClaimsCap == 10

\* What a sentence matches: nothing, one weak indicator with and without an
\* opinion pattern, one strong indicator, and several indicators
MatchKinds ==
  { [types |-> {}, opinions |-> 0],
    [types |-> {"year"}, opinions |-> 0],
    [types |-> {"year", "change"}, opinions |-> 2],
    [types |-> {"research"}, opinions |-> 0],
    [types |-> {"financial", "statistical"}, opinions |-> 0],
    [types |-> {"financial", "statistical", "research"}, opinions |-> 1] }

\* s.length of a sentence, around the two limits of the filter
SentenceLengths == {30, 31, 299, 300}

PageSentence(length, kind) ==
  [length |-> length, types |-> kind.types, opinions |-> kind.opinions]

\* A page of many sentences of one kind, with a sentence of another kind at
\* place p
LongPage(n, p, kind, other) ==
  [k \in 1..n |-> PageSentence(31, IF k = p THEN other ELSE kind)]

PageSentenceLists ==
  SeqsUpTo({PageSentence(l, kind) : l \in SentenceLengths, kind \in MatchKinds},
           MaxPageSentences)
  \cup {LongPage(TopClaimsCap + 1, p, kind, other) :
          p \in {1, TopClaimsCap + 1}, kind \in MatchKinds, other \in MatchKinds}

RECURSIVE FactualScore(_, _)
\* claimScore += indicator.score for every factual indicator that matches
FactualScore(indicators, types) ==
  IF indicators = <<>> THEN 0
  ELSE (IF Head(indicators).type \in types THEN Head(indicators).score ELSE 0)
       + FactualScore(Tail(indicators), types)

\* claimScore of a sentence: the factual indicators, less 0.5 per opinion pattern
claimScore(sentence) == FactualScore(factualIndicators, sentence.types) - 50 * sentence.opinions

\* .filter(s => s.length > 30 && s.length < 300)
LengthFilter(sentence) == sentence.length > 30 /\ sentence.length < 300

\* extractClaims(text), on the sentences of the text
extractClaims(sentences) ==
  LET n == Len(sentences)
      \* the places of the sentences that become claims, in page order
      kept == {k \in 1..n : LengthFilter(sentences[k]) /\ claimScore(sentences[k]) >= 70}
      confidence(k) == Min(100, claimScore(sentences[k]))
      \* place of claim k after claims.sort((a, b) => b.confidence - a.confidence)
      rank(k) == Cardinality({j \in kept : \/ confidence(j) > confidence(k)
                                           \/ (confidence(j) = confidence(k) /\ j < k)})
      top == {k \in kept : rank(k) < TopClaimsCap}
      at(p) == CHOOSE k \in top : rank(k) = p - 1
  IN [p \in 1..Cardinality(top) |->
        [text |-> at(p), confidence |-> confidence(at(p)), types |-> sentences[at(p)].types]]

ExtractIdle ==
  /\ xPc = "idle"
  /\ xSentences = <<>>
  /\ xClaims = <<>>

ExtractInit ==
  /\ xPc = "called"
  /\ xSentences \in PageSentenceLists
  /\ xClaims = <<>>

\* Step 2 of handleAnalysis: extractClaims(data.text) returns
ExtractClaimsReturns ==
  /\ xPc = "called"
  /\ xClaims' = extractClaims(xSentences)
  /\ xPc' = "returned"
  /\ UNCHANGED xSentences
  /\ UNCHANGED otherThanExtract

ExtractNext == ExtractClaimsReturns

(***************************************************************************)
(* Properties of extractClaims.                                            *)
(***************************************************************************)

\* The sentences of 30 to 300 characters with a net score of 0.7 or more
Eligible ==
  {k \in 1..Len(xSentences) :
     /\ xSentences[k].length >= 30 /\ xSentences[k].length <= 300
     /\ claimScore(xSentences[k]) >= 70}

\* C25: extractClaims returns exactly the highest-scoring sentences, ten at
\* most, among those of 30 to 300 characters whose net score is 0.7 or more,
\* ordered by descending net score.
C25_TopClaimsByScore ==
  xPc = "returned" =>
    LET returned == {xClaims[p].text : p \in 1..Len(xClaims)}
    IN /\ Len(xClaims) = Min(TopClaimsCap, Cardinality(Eligible))
       /\ Cardinality(returned) = Len(xClaims)
       /\ returned \subseteq Eligible
       /\ \A p \in 1..(Len(xClaims) - 1) :
            claimScore(xSentences[xClaims[p].text]) >= claimScore(xSentences[xClaims[p + 1].text])
       /\ \A k \in Eligible \ returned : \A r \in returned :
            claimScore(xSentences[r]) >= claimScore(xSentences[k])

(***************************************************************************)
(* The background worker's trusted-source table (src/unnamed/part_000,     *)
(* lines 197-214) and the analyses that read it (lines 217-262).  The      *)
(* table is "initial" ({}), "file" (the content of trusted-sources.json)   *)
(* or "fallback" (the built-in general sources).                           *)
(***************************************************************************)
Messages == 1..MaxMessages

LoadIdle ==
  /\ kLoad = "idle"
  /\ trustedSources = "initial"
  /\ kPc = [a \in Messages |-> "none"]
  /\ kClaims = [a \in Messages |-> 0]
  /\ kRead = [a \in Messages |-> <<>>]

\* The worker script has run: let trustedSources = {}; fetch(...) is under way
LoadInit ==
  /\ kLoad = "pending"
  /\ trustedSources = "initial"
  /\ kPc = [a \in Messages |-> "none"]
  /\ kClaims = [a \in Messages |-> 0]
  /\ kRead = [a \in Messages |-> <<>>]

\* .then(data => { trustedSources = data })
LoadResolved ==
  /\ kLoad = "pending"
  /\ trustedSources' = "file"
  /\ kLoad' = "loaded"
  /\ UNCHANGED <<kPc, kClaims, kRead>>
  /\ UNCHANGED otherThanLoad

\* .catch(error => { trustedSources = { general: ... } })
LoadFailed ==
  /\ kLoad = "pending"
  /\ trustedSources' = "fallback"
  /\ kLoad' = "failed"
  /\ UNCHANGED <<kPc, kClaims, kRead>>
  /\ UNCHANGED otherThanLoad

\* An "analyzeArticle" message: the listener calls handleAnalysis, which runs
\* to its await; every verifyClaim call reads the table in its first line
HandleAnalysis(a, n) ==
  /\ kPc[a] = "none"
  /\ \A b \in 1..(a - 1) : kPc[b] # "none"
  /\ kClaims' = [kClaims EXCEPT ![a] = n]
  /\ kRead' = [kRead EXCEPT ![a] = [k \in 1..n |-> trustedSources]]
  /\ kPc' = [kPc EXCEPT ![a] = "verifying"]
  /\ UNCHANGED <<kLoad, trustedSources>>
  /\ UNCHANGED otherThanLoad

\* handleAnalysis resumes after Promise.all: calculateOverallScore returns 0.5
\* for no claims and walks the table otherwise
ResumeAnalysis(a) ==
  /\ kPc[a] = "verifying"
  /\ kRead' = [kRead EXCEPT ![a] = IF kClaims[a] = 0 THEN @ ELSE Append(@, trustedSources)]
  /\ kPc' = [kPc EXCEPT ![a] = "scored"]
  /\ UNCHANGED <<kLoad, trustedSources, kClaims>>
  /\ UNCHANGED otherThanLoad

LoadNext ==
  \/ LoadResolved
  \/ LoadFailed
  \/ \E a \in Messages, n \in 0..MaxPageClaims : HandleAnalysis(a, n)
  \/ \E a \in Messages : ResumeAnalysis(a)

(***************************************************************************)
(* Properties of the trusted-source table.                                 *)
(***************************************************************************)

\* C26: every analysis reads the table loaded from trusted-sources.json or
\* the built-in fallback, never the initial empty table, also when its
\* request arrives before the load has completed.
C26_NeverReadsInitialTable ==
  \A a \in Messages : \A k \in DOMAIN kRead[a] : kRead[a][k] \in {"file", "fallback"}

(***************************************************************************)
(* The page of src/src/app/page.tsx: handleAnalyze, analyzeClaims and      *)
(* searchClaims.  analysisState starts as {} and gets its fields one by    *)
(* one; a url string is the sequence of the pieces it has between the      *)
(* separators, as in the extraction route.                                 *)
(***************************************************************************)
\* { ...prev, key: val }
With(prev, key, val) ==
  [f \in DOMAIN prev \cup {key} |-> IF f = key THEN val ELSE prev[f]]

\* useState<AnalysisState>({})
EmptyAnalysisState == [f \in {} |-> 0]

\* The url lists the search may return for one claim: none, one address,
\* the same address twice, two addresses, one of them not http(s), and one
\* string holding two addresses
SearchUrlGroups ==
  { <<>>,
    << <<Url("http", 1, "ok")>> >>,
    << <<Url("https", 2, "ok")>> >>,
    << <<Url("http", 1, "ok")>>, <<Url("http", 1, "ok")>> >>,
    << <<Url("http", 1, "ok")>>, <<Url("https", 2, "ok")>> >>,
    << <<Url("ftp", 4, "ok")>>, <<Url("https", 2, "ok")>> >>,
    << <<Url("http", 1, "ok"), Url("https", 2, "ok")>> >> }

\* Lines 281-287: the pieces of every url string of every group
perClaimUrls(urls) ==
  [i \in 1..Len(urls) |-> SelectSeq(Flatten(urls[i]), LAMBDA piece : piece # BlankPiece)]

\* Lines 289-294
flatUrls(urls) ==
  LET perClaimUrlsNormalized == [i \in 1..Len(urls) |-> Dedupe(perClaimUrls(urls)[i])]
  IN SelectSeq(Flatten(perClaimUrlsNormalized), IsHttpUrl)

\* The items the extraction route makes of the body { urls: flatUrls }
PageBatchItems(urls) ==
  NormalizeItems([k \in 1..Len(flatUrls(urls)) |-> <<flatUrls(urls)[k]>>],
                 [given |-> FALSE, list |-> <<>>])

\* Lines 312-330: the results of a successful extraction response, one per
\* item of the route, with or without content
PageBatchResults(urls) ==
  {[k \in 1..Len(PageBatchItems(urls)) |->
      [url |-> PageBatchItems(urls)[k].url[1], content |-> cs[k]]] :
     cs \in [1..Len(PageBatchItems(urls)) -> {<<>>, <<"c">>}]}

\* Lines 334-343: the results cut into groups by the lengths of perClaimUrls
groupedResults(urls, normalizedResults) ==
  LET counts == [i \in 1..Len(urls) |-> Len(perClaimUrls(urls)[i])]
      offset(i) == SumSeq(SubSeq(counts, 1, i - 1))
  IN [i \in 1..Len(urls) |-> Slice(normalizedResults, offset(i), offset(i) + counts[i])]

\* r.content || r.url
HasUrlOrContent(r) == r.content # <<>> \/ r.url # BlankPiece

\* Lines 385-400: the representative of each group with the verdict found
\* for its claim
merged(urls, grouped, factCheckResults) ==
  [i \in 1..Len(grouped) |->
     LET representative ==
           IF Len(grouped[i]) > 0 THEN grouped[i][1]
           ELSE [url |-> IF Len(perClaimUrls(urls)[i]) > 0 THEN perClaimUrls(urls)[i][1]
                         ELSE BlankPiece,
                 content |-> <<>>]
     IN [url |-> representative.url, content |-> representative.content,
         verdict |-> IF i <= Len(factCheckResults) THEN factCheckResults[i] ELSE "<undefined>"]]

\* Lines 151-157
verdictCountsOf(webSearchResults) ==
  LET count(v) == Len(SelectSeq(webSearchResults, LAMBDA r : r.verdict = v))
  IN [support |-> count("Support"), partially |-> count("Partially Support"),
      unclear |-> count("Unclear"), contradict |-> count("Contradict"),
      refute |-> count("Refute")]

PageIdle ==
  /\ pPc = "idle"
  /\ pRuns = 0
  /\ pError = NoError
  /\ pAnalysisState = EmptyAnalysisState
  /\ pLoadingState = NoStep
  /\ pShowClaimsPanel = FALSE
  /\ pClaimCount = 0
  /\ pUrls = <<>>
  /\ pResults = <<>>
  /\ pGrouped = <<>>

\* Lines 48-71: the page as it is first rendered, the user about to press
\* ANALYZE with an address typed in
PageInit ==
  /\ pPc = "ready"
  /\ pRuns = 0
  /\ pError = NoError
  /\ pAnalysisState = EmptyAnalysisState
  /\ pLoadingState = NoStep
  /\ pShowClaimsPanel = FALSE
  /\ pClaimCount = 0
  /\ pUrls = <<>>
  /\ pResults = <<>>
  /\ pGrouped = <<>>

\* Lines 245-250: catch and finally of handleAnalyze
PageThrow(message) ==
  /\ pError' = message
  /\ pPc' = "ready"
  /\ pRuns' = pRuns + 1
  /\ pUrls' = <<>>
  /\ pResults' = <<>>
  /\ pGrouped' = <<>>

\* Lines 123-199: analyzeClaims once searchClaims has returned, and the end
\* of handleAnalyze
PageFinish(webSearchResults) ==
  LET successCount == Len(SelectSeq(webSearchResults, HasUrlOrContent))
  IN /\ pAnalysisState' = With(With(pAnalysisState, "analyzedCount", successCount),
                               "verdicts", verdictCountsOf(webSearchResults))
     /\ pLoadingState' = [NoStep EXCEPT ![5] = TRUE]
     /\ pShowClaimsPanel' = TRUE
     /\ pPc' = "ready"
     /\ pRuns' = pRuns + 1
     /\ pUrls' = <<>>
     /\ pResults' = <<>>
     /\ pGrouped' = <<>>

\* Lines 201-231: handleAnalyze up to its first await
PageHandleAnalyze ==
  /\ pPc = "ready"
  /\ pRuns < MaxRuns
  /\ pError' = NoError
  /\ pAnalysisState' = EmptyAnalysisState
  /\ pLoadingState' = NoStep
  /\ pShowClaimsPanel' = FALSE
  /\ pPc' = "analyze"
  /\ UNCHANGED <<pRuns, pClaimCount, pUrls, pResults, pGrouped>>
  /\ UNCHANGED otherThanPage

\* Lines 224-242 and 73-96: /api/analyze answers; analyzeClaims starts
PageAnalyzeResponds ==
  /\ pPc = "analyze"
  /\ \/ /\ PageThrow("Failed to analyze URL")
        /\ UNCHANGED <<pAnalysisState, pLoadingState>>
     \/ /\ pAnalysisState' = EmptyAnalysisState
        /\ pLoadingState' = [NoStep EXCEPT ![1] = TRUE]
        /\ pPc' = "claims"
        /\ UNCHANGED <<pError, pRuns, pUrls, pResults, pGrouped>>
  /\ UNCHANGED <<pShowClaimsPanel, pClaimCount>>
  /\ UNCHANGED otherThanPage

\* Lines 98-123 and 259-262: /api/claims answers; searchClaims starts
PageClaimsResponds ==
  /\ pPc = "claims"
  /\ \/ /\ PageThrow("Failed to analyze claims")
        /\ UNCHANGED <<pAnalysisState, pLoadingState, pClaimCount>>
     \/ \E n \in 0..MaxGroups :
          /\ pClaimCount' = n
          /\ pAnalysisState' = With(pAnalysisState, "totalClaims", n)
          /\ pLoadingState' = [pLoadingState EXCEPT ![1] = FALSE, ![2] = FALSE, ![3] = TRUE]
          /\ pPc' = "websearch"
          /\ UNCHANGED <<pError, pRuns, pUrls, pResults, pGrouped>>
  /\ UNCHANGED pShowClaimsPanel
  /\ UNCHANGED otherThanPage

\* Lines 264-300: the search answers; the search route refuses an empty
\* claim list.  searchClaims returns [] when it fails or finds no url
PageWebsearchResponds ==
  /\ pPc = "websearch"
  /\ \/ /\ PageFinish(<<>>)
        /\ UNCHANGED pError
     \/ /\ pClaimCount > 0
        /\ \E urls \in [1..pClaimCount -> SearchUrlGroups] :
             IF Len(flatUrls(urls)) = 0
             THEN PageFinish(<<>>) /\ UNCHANGED pError
             ELSE /\ pUrls' = urls
                  /\ pLoadingState' = [pLoadingState EXCEPT ![3] = FALSE, ![4] = TRUE]
                  /\ pPc' = "batch"
                  /\ UNCHANGED <<pError, pRuns, pAnalysisState, pShowClaimsPanel,
                                 pResults, pGrouped>>
  /\ UNCHANGED pClaimCount
  /\ UNCHANGED otherThanPage

\* Lines 300-374: the extraction answers
PageBatchResponds ==
  /\ pPc = "batch"
  /\ \/ /\ PageFinish(<<>>)
        /\ UNCHANGED pError
     \/ \E normalizedResults \in PageBatchResults(pUrls) :
          /\ pResults' = normalizedResults
          /\ pGrouped' = groupedResults(pUrls, normalizedResults)
          /\ pAnalysisState' =
               With(pAnalysisState, "analyzedCount",
                    Len(SelectSeq(normalizedResults, HasUrlOrContent)))
          /\ pPc' = "factCheck"
          /\ UNCHANGED <<pError, pRuns, pLoadingState, pShowClaimsPanel, pUrls>>
  /\ UNCHANGED pClaimCount
  /\ UNCHANGED otherThanPage

\* Lines 375-413 and 123-199: the verification answers, with a verdict for
\* every claim or for some
PageFactCheckResponds ==
  /\ pPc = "factCheck"
  /\ \/ PageFinish(<<>>)
     \/ \E factCheckResults \in [1..pClaimCount -> {"Support", "Refute", "<undefined>"}] :
          PageFinish(merged(pUrls, pGrouped, factCheckResults))
  /\ UNCHANGED <<pError, pClaimCount>>
  /\ UNCHANGED otherThanPage

PageNext ==
  \/ PageHandleAnalyze
  \/ PageAnalyzeResponds
  \/ PageClaimsResponds
  \/ PageWebsearchResponds
  \/ PageBatchResponds
  \/ PageFactCheckResponds

(***************************************************************************)
(* Properties of the page.                                                 *)
(***************************************************************************)

\* C27: after the batch extraction of the flattened url list, the evidence
\* group of claim i consists exactly of the extraction results of the urls
\* the search returned for claim i, also when a url occurs for several
\* claims, twice for one claim, or is not an http(s) url.
C27_GroupsMatchSearchedUrls ==
  pPc = "factCheck" =>
    /\ Len(pGrouped) = pClaimCount
    /\ \A i \in 1..Len(pGrouped) :
         {pGrouped[i][k].url : k \in 1..Len(pGrouped[i])}
           = {piece \in Range(perClaimUrls(pUrls)[i]) : IsHttpUrl(piece)}

\* C29: in every state of the progress metrics, across successful, failed
\* and consecutive runs, analyzedCount is at most totalClaims and the
\* verdict histogram sums to at most analyzedCount.
C29_ProgressMetricsOrdered ==
  /\ {"totalClaims", "analyzedCount"} \subseteq DOMAIN pAnalysisState
       => pAnalysisState.analyzedCount <= pAnalysisState.totalClaims
  /\ {"verdicts", "analyzedCount"} \subseteq DOMAIN pAnalysisState
       => LET v == pAnalysisState.verdicts
          IN v.support + v.partially + v.unclear + v.contradict + v.refute
               <= pAnalysisState.analyzedCount

(***************************************************************************)
(* The two domain checks of the extension (src/unnamed/part_000): the one  *)
(* of verifyClaim (lines 549-580) and the one of calculateOverallScore     *)
(* (lines 732-754).  A domain is the sequence of its characters.           *)
(***************************************************************************)
Period == "."

RECURSIVE JoinDots(_)
\* parts.join('.')
JoinDots(parts) ==
  IF parts = <<>> THEN <<>>
  ELSE IF Len(parts) = 1 THEN parts[1]
  ELSE parts[1] \o <<Period>> \o JoinDots(Tail(parts))

RECURSIVE SplitDots(_)
\* s.split('.')
SplitDots(s) ==
  IF \A k \in 1..Len(s) : s[k] # Period THEN <<s>>
  ELSE LET k == CHOOSE i \in 1..Len(s) : s[i] = Period /\ \A j \in 1..(i - 1) : s[j] # Period
       IN <<SubSeq(s, 1, k - 1)>> \o SplitDots(SubSeq(s, k + 1, Len(s)))

\* s.includes(sub)
StringIncludes(s, sub) ==
  \E i \in 1..(Len(s) - Len(sub) + 1) : SubSeq(s, i, i + Len(sub) - 1) = sub

\* s.endsWith(suffix)
EndsWith(s, suffix) ==
  Len(suffix) <= Len(s) /\ SubSeq(s, Len(s) - Len(suffix) + 1, Len(s)) = suffix

\* domainParts.slice(-2).join('.')
baseDomain(sourceDomain) ==
  LET domainParts == SplitDots(sourceDomain)
  IN JoinDots(Slice(domainParts, Max(0, Len(domainParts) - 2), Len(domainParts)))

DomainLabels == {<<"a">>, <<"b">>, <<"c">>, <<"a", "b">>}

\* window.location.hostname of the page
PageDomains == {JoinDots(parts) : parts \in SeqsUpTo(DomainLabels, MaxLabels) \ {<<>>}}

TrustedNames ==
  [bc |-> JoinDots(<< <<"b">>, <<"c">> >>),
   abc |-> JoinDots(<< <<"a", "b">>, <<"c">> >>),
   a_b_c |-> JoinDots(<< <<"a">>, <<"b">>, <<"c">> >>)]

\* The tables the worker may hold: {} before the load, and tables with a
\* general list, with or without a list for the category health
TrustedTables ==
  {[cat \in {} |-> <<>>]}
  \cup {[cat \in {"general"} |-> g] :
          g \in {<<TrustedNames.bc>>, <<TrustedNames.abc>>, <<TrustedNames.a_b_c>>,
                 <<TrustedNames.abc, TrustedNames.bc>>}}
  \cup {[cat \in {"general", "health"} |-> IF cat = "general" THEN g ELSE h] :
          g \in {<<TrustedNames.bc>>, <<TrustedNames.abc>>, <<TrustedNames.a_b_c>>,
                 <<TrustedNames.abc, TrustedNames.bc>>},
          h \in {<<TrustedNames.a_b_c>>, <<TrustedNames.abc>>}}

\* Lines 549-580: isDomainTrusted of verifyClaim
ClaimDomainTrusted(table, category, sourceDomain) ==
  LET hasData == category \in DOMAIN table \/ "general" \in DOMAIN table
      trustedList == IF category \in DOMAIN table THEN table[category] ELSE table["general"]
  IN /\ hasData
     /\ \E k \in 1..Len(trustedList) :
          \/ StringIncludes(sourceDomain, trustedList[k])
          \/ StringIncludes(trustedList[k], sourceDomain)
          \/ baseDomain(sourceDomain) = trustedList[k]
          \/ EndsWith(trustedList[k], baseDomain(sourceDomain))

\* Lines 732-754: domainModifier of calculateOverallScore, in hundredths
DomainModifier(table, domain) ==
  LET isDomainTrusted ==
        \E cat \in DOMAIN table : \E k \in 1..Len(table[cat]) :
           \/ StringIncludes(domain, table[cat][k])
           \/ StringIncludes(table[cat][k], domain)
  IN IF isDomainTrusted THEN 10 ELSE -5

DomainIdle ==
  /\ dPc = "idle"
  /\ dTable = [cat \in {} |-> <<>>]
  /\ dCategory = "general"
  /\ dDomain = <<>>
  /\ dClaimTrusted = FALSE
  /\ dModifier = 0

\* An analysis of a page of some domain and category starts
DomainInit ==
  /\ dPc = "called"
  /\ dTable \in TrustedTables
  /\ dCategory \in {"general", "health", "politics"}
  /\ dDomain \in PageDomains
  /\ dClaimTrusted = FALSE
  /\ dModifier = 0

\* verifyClaim decides whether the domain is trusted
DecideClaimTrust ==
  /\ dPc = "called"
  /\ dClaimTrusted' = ClaimDomainTrusted(dTable, dCategory, dDomain)
  /\ dPc' = "verified"
  /\ UNCHANGED <<dTable, dCategory, dDomain, dModifier>>
  /\ UNCHANGED otherThanDomain

\* calculateOverallScore sets the domain modifier
DecideModifier ==
  /\ dPc = "verified"
  /\ dModifier' = DomainModifier(dTable, dDomain)
  /\ dPc' = "scored"
  /\ UNCHANGED <<dTable, dCategory, dDomain, dClaimTrusted>>
  /\ UNCHANGED otherThanDomain

DomainNext == DecideClaimTrust \/ DecideModifier

(***************************************************************************)
(* Properties of the domain checks.                                        *)
(***************************************************************************)

\* C28: within one analysis, if verifyClaim judged the page domain trusted
\* for a claim, calculateOverallScore applies the +0.10 modifier of a
\* trusted domain and not the penalty.
C28_TrustDecisionsAgree ==
  (dPc = "scored" /\ dClaimTrusted) => dModifier = 10

(***************************************************************************)
(* The rate limiter of the embedding calls (src/unnamed/part_005, lines    *)
(* 12-42).  lastRequestTime belongs to the module and is shared by all     *)
(* requests; times are in milliseconds and the clock is read in steps of   *)
(* half a delay.                                                           *)
(***************************************************************************)
Tick == RATE_LIMIT_DELAY \div 2

EmbeddingCalls == 1..MaxCalls

RateIdle ==
  /\ lClock = 0
  /\ lastRequestTime = 0
  /\ lPc = [call \in EmbeddingCalls |-> "idle"]
  /\ lWake = [call \in EmbeddingCalls |-> 0]
  /\ lReleased = [call \in EmbeddingCalls |-> 0]

\* The module is loaded: let lastRequestTime = 0, long before now
RateInit ==
  /\ lClock = RATE_LIMIT_DELAY
  /\ lastRequestTime = 0
  /\ lPc = [call \in EmbeddingCalls |-> "none"]
  /\ lWake = [call \in EmbeddingCalls |-> 0]
  /\ lReleased = [call \in EmbeddingCalls |-> 0]

\* generateEmbedding calls rateLimit, which runs to its await or to its end
RateLimit(call) ==
  /\ lPc[call] = "none"
  /\ \A earlier \in 1..(call - 1) : lPc[earlier] # "none"
  /\ LET now == lClock
         timeSinceLastRequest == now - lastRequestTime
     IN IF timeSinceLastRequest < RATE_LIMIT_DELAY
        THEN /\ lPc' = [lPc EXCEPT ![call] = "waiting"]
             /\ lWake' = [lWake EXCEPT ![call] = now + (RATE_LIMIT_DELAY - timeSinceLastRequest)]
             /\ UNCHANGED <<lastRequestTime, lReleased>>
        ELSE /\ lastRequestTime' = lClock
             /\ lPc' = [lPc EXCEPT ![call] = "released"]
             /\ lReleased' = [lReleased EXCEPT ![call] = lClock]
             /\ UNCHANGED lWake
  /\ UNCHANGED lClock
  /\ UNCHANGED otherThanRate

\* The timer of a waiting call fires: lastRequestTime = Date.now() and the
\* call goes on to the embedding request
RateTimerFires(call) ==
  /\ lPc[call] = "waiting"
  /\ lClock >= lWake[call]
  /\ lastRequestTime' = lClock
  /\ lPc' = [lPc EXCEPT ![call] = "released"]
  /\ lReleased' = [lReleased EXCEPT ![call] = lClock]
  /\ UNCHANGED <<lClock, lWake>>
  /\ UNCHANGED otherThanRate

\* Time passes, no timer being due
TimePasses ==
  /\ lClock < RATE_LIMIT_DELAY + MaxTicks * Tick
  /\ \A call \in EmbeddingCalls : lPc[call] = "waiting" => lClock < lWake[call]
  /\ lClock' = lClock + Tick
  /\ UNCHANGED <<lastRequestTime, lPc, lWake, lReleased>>
  /\ UNCHANGED otherThanRate

RateNext ==
  \/ \E call \in EmbeddingCalls : RateLimit(call)
  \/ \E call \in EmbeddingCalls : RateTimerFires(call)
  \/ TimePasses

(***************************************************************************)
(* Properties of the rate limiter.                                         *)
(***************************************************************************)

\* C30: the release times of any two embedding calls that pass through
\* rateLimit differ by at least RATE_LIMIT_DELAY, also for calls started
\* together by one Promise.all or by different requests.
C30_ReleasesSpacedByDelay ==
  \A c1, c2 \in EmbeddingCalls :
     (c1 # c2 /\ lPc[c1] = "released" /\ lPc[c2] = "released") =>
        \/ lReleased[c1] - lReleased[c2] >= RATE_LIMIT_DELAY
        \/ lReleased[c2] - lReleased[c1] >= RATE_LIMIT_DELAY

\* The extension at rest
ExtIdle == ScoreIdle /\ ContentIdle /\ HistoryIdle

\* The models added to the first five, at rest
MoreIdle == ChunksIdle /\ ExtractIdle /\ LoadIdle /\ PageIdle /\ DomainIdle /\ RateIdle

(***************************************************************************)
(* Specifications: one per request handler, the others left idle.          *)
(***************************************************************************)
VerifyInit == FcInit /\ BatchIdle /\ ClassifyIdle /\ AnalyzeIdle /\ SearchIdle /\ ExtIdle /\ MoreIdle

SpecVerify == VerifyInit /\ [][VerifyNext]_vars

BatchSpecInit == BatchInit /\ FcIdle /\ ClassifyIdle /\ AnalyzeIdle /\ SearchIdle /\ ExtIdle /\ MoreIdle

SpecBatch == BatchSpecInit /\ [][BatchNext]_vars

ClassifySpecInit == ClassifyInit /\ FcIdle /\ BatchIdle /\ AnalyzeIdle /\ SearchIdle /\ ExtIdle /\ MoreIdle

SpecClassify == ClassifySpecInit /\ [][ClassifyNext]_vars

AnalyzeSpecInit == AnalyzeInit /\ FcIdle /\ BatchIdle /\ ClassifyIdle /\ SearchIdle /\ ExtIdle /\ MoreIdle

SpecAnalyze == AnalyzeSpecInit /\ [][AnalyzeNext]_vars

SearchSpecInit == SearchInit /\ FcIdle /\ BatchIdle /\ ClassifyIdle /\ AnalyzeIdle /\ ExtIdle /\ MoreIdle

SpecSearch == SearchSpecInit /\ [][SearchNext]_vars

ScoreSpecInit ==
  /\ ScoreInit /\ ContentIdle /\ HistoryIdle
  /\ FcIdle /\ BatchIdle /\ ClassifyIdle /\ AnalyzeIdle /\ SearchIdle /\ MoreIdle

SpecScore == ScoreSpecInit /\ [][ScoreNext]_vars

ContentSpecInit ==
  /\ ContentInit /\ ScoreIdle /\ HistoryIdle
  /\ FcIdle /\ BatchIdle /\ ClassifyIdle /\ AnalyzeIdle /\ SearchIdle /\ MoreIdle

SpecContent == ContentSpecInit /\ [][ContentNext]_vars

HistorySpecInit ==
  /\ HistoryInit /\ ScoreIdle /\ ContentIdle
  /\ FcIdle /\ BatchIdle /\ ClassifyIdle /\ AnalyzeIdle /\ SearchIdle /\ MoreIdle

SpecHistory == HistorySpecInit /\ [][HistoryNext]_vars

ChunksSpecInit ==
  /\ ChunksInit /\ ExtractIdle /\ LoadIdle /\ PageIdle /\ DomainIdle /\ RateIdle /\ ExtIdle
  /\ FcIdle /\ BatchIdle /\ ClassifyIdle /\ AnalyzeIdle /\ SearchIdle

SpecChunks == ChunksSpecInit /\ [][ChunksNext]_vars

ExtractSpecInit ==
  /\ ExtractInit /\ ChunksIdle /\ LoadIdle /\ PageIdle /\ DomainIdle /\ RateIdle /\ ExtIdle
  /\ FcIdle /\ BatchIdle /\ ClassifyIdle /\ AnalyzeIdle /\ SearchIdle

SpecExtract == ExtractSpecInit /\ [][ExtractNext]_vars

LoadSpecInit ==
  /\ LoadInit /\ ChunksIdle /\ ExtractIdle /\ PageIdle /\ DomainIdle /\ RateIdle /\ ExtIdle
  /\ FcIdle /\ BatchIdle /\ ClassifyIdle /\ AnalyzeIdle /\ SearchIdle

SpecLoad == LoadSpecInit /\ [][LoadNext]_vars

PageSpecInit ==
  /\ PageInit /\ ChunksIdle /\ ExtractIdle /\ LoadIdle /\ DomainIdle /\ RateIdle /\ ExtIdle
  /\ FcIdle /\ BatchIdle /\ ClassifyIdle /\ AnalyzeIdle /\ SearchIdle

SpecPage == PageSpecInit /\ [][PageNext]_vars

DomainSpecInit ==
  /\ DomainInit /\ ChunksIdle /\ ExtractIdle /\ LoadIdle /\ PageIdle /\ RateIdle /\ ExtIdle
  /\ FcIdle /\ BatchIdle /\ ClassifyIdle /\ AnalyzeIdle /\ SearchIdle

SpecDomain == DomainSpecInit /\ [][DomainNext]_vars

RateSpecInit ==
  /\ RateInit /\ ChunksIdle /\ ExtractIdle /\ LoadIdle /\ PageIdle /\ DomainIdle /\ ExtIdle
  /\ FcIdle /\ BatchIdle /\ ClassifyIdle /\ AnalyzeIdle /\ SearchIdle

SpecRate == RateSpecInit /\ [][RateNext]_vars

\* One request to one of the three routes
RoutesInit == VerifyInit \/ BatchSpecInit \/ SearchSpecInit

RoutesNext ==
  \/ VerifyNext /\ bPc = "idle" /\ wPc = "idle"
  \/ BatchNext /\ fcPc = "idle" /\ wPc = "idle"
  \/ SearchNext /\ fcPc = "idle" /\ bPc = "idle"

SpecRoutes == RoutesInit /\ [][RoutesNext]_vars

====
